---------------------------- MODULE Spec2Model ----------------------------
(***************************************************************************)
(* Traffic-prediction engine of zsu-tmu-client.                            *)
(*                                                                         *)
(* src/src/App.tsx holds three concatenated modules: the tab switcher      *)
(* (lines 1-41), the route-based SectorMatrix (lines 43-415) and the       *)
(* route-drawing VatsimRouteFetcher (lines 417-801).                       *)
(* src/src/components/TJSJArrivals.tsx holds two: the gate matrix          *)
(* TJSJArrivals (lines 1-209) and the dead-reckoning SectorMatrix          *)
(* (lines 211-414).  Definitions that exist in several of them carry a     *)
(* suffix: _App (route-based SectorMatrix), _VRF (VatsimRouteFetcher),     *)
(* _TJSJ (gate matrix), _DR (dead-reckoning SectorMatrix).                 *)
(*                                                                         *)
(* Instants are milliseconds since the epoch, as Date.getTime() gives.     *)
(***************************************************************************)
EXTENDS Integers, Sequences, FiniteSets, TLC

VARIABLES
    tgNow,      \* time grid: the instant handed to the slot generator
    tgHours,    \* time grid: the horizon (windowHours)
    tgKind,     \* time grid: which generator produced tgSlots ("none" before)
    tgSlots,    \* time grid: the slot sequence produced
    rsToken,    \* resolver: the route token (as written in the route text)
    rsTable,    \* resolver: the content of routes.json
    rsPrev,     \* resolver: the previous coordinate handed to the resolver
    rsOut,      \* resolver: the resolution (kind "none" before)
    rtAc,       \* route projection: the aircraft (position, heading, flight plan)
    rtTable,    \* route projection: the content of routes.json
    rtOut,      \* route projection: the result of the projection (kind "none" before)
    mxView,         \* matrices: the mounted component ("route", "dead" or "gate")
    mxClock,        \* matrices: the wall clock, what new Date() and Date.now() give
    mxAircraftData, \* matrices: state aircraftData of the SectorMatrix components
    mxSectors,      \* matrices: the features of state sectors
    mxFixCoords,    \* matrices: state fixCoords of the route-based SectorMatrix
    mxSlots,        \* matrices: state slots
    mxWindowHours,  \* matrices: state windowHours
    mxCounts,       \* matrices: state counts (region name -> one count per slot)
    mxPresent,      \* matrices: state present of the route-based SectorMatrix
    mxPending,      \* matrices: the fetches in flight
    mxPass,         \* matrices: the clock, the pilots and the trigger of the last pass
    mxCycle,        \* matrices: what the telemetry cycles in flight and ended did
    clVal,      \* cell colour: the count of the cell
    clLimit,    \* cell colour: the limit configured for the region
    clSector,   \* cell colour: the sector of the cell
    clOut,      \* cell colour: the classification (kind "none" before)
    lmLimits,   \* limits: state limits of the gate matrix
    lmPublished,\* limits: the payload of the last socket.emit('updateLimits')
    lmInbox,    \* limits: the 'limits' events the channel has yet to deliver
    lmLast,     \* limits: the last edit or received update, and the map before it
    lmEvents    \* limits: the number of edits and broadcasts so far

tgVars == <<tgNow, tgHours, tgKind, tgSlots>>
rsVars == <<rsToken, rsTable, rsPrev, rsOut>>
rtVars == <<rtAc, rtTable, rtOut>>
mxVars == <<mxView, mxClock, mxAircraftData, mxSectors, mxFixCoords, mxSlots, mxWindowHours,
            mxCounts, mxPresent, mxPending, mxPass, mxCycle>>

clVars == <<clVal, clLimit, clSector, clOut>>
lmVars == <<lmLimits, lmPublished, lmInbox, lmLast, lmEvents>>

\* What the matrices leave alone.
mxOthers == <<tgVars, rsVars, rtVars, clVars, lmVars>>

vars == <<tgVars, rsVars, rtVars, mxVars, clVars, lmVars>>

\* The variables of a component that a specification does not run.
TgIdle == tgNow = 0 /\ tgHours = 0 /\ tgKind = "idle" /\ tgSlots = <<>>
RsIdle == rsToken = <<>> /\ rsTable = <<>> /\ rsPrev = <<>> /\ rsOut = [kind |-> "idle"]
RtIdle == rtAc = <<>> /\ rtTable = <<>> /\ rtOut = [kind |-> "idle"]
MxIdle ==
    /\ mxView = "idle" /\ mxClock = 0 /\ mxAircraftData = <<>> /\ mxSectors = <<>>
    /\ mxFixCoords = <<>> /\ mxSlots = <<>> /\ mxWindowHours = 0 /\ mxCounts = <<>>
    /\ mxPresent = <<>> /\ mxPending = <<>> /\ mxPass = <<>> /\ mxCycle = <<>>
ClIdle == clVal = 0 /\ clLimit = 0 /\ clSector = "" /\ clOut = [kind |-> "idle"]
LmIdle ==
    /\ lmLimits = <<>> /\ lmPublished = <<>> /\ lmInbox = <<>>
    /\ lmLast = [kind |-> "idle"] /\ lmEvents = 0

(***************************************************************************)
(* Bounds of the model.                                                    *)
(***************************************************************************)
MaxMinute == 31     \* instants range over minutes 0..MaxMinute (+0 or +1 ms)
MaxHours == 2       \* horizons range over 1..MaxHours
MaxRouteLen == 3    \* route texts hold up to MaxRouteLen tokens
MaxTicks == 1       \* the matrices' clock advances MaxTicks times
MaxWindow == 1      \* the operator sets windowHours to 1..MaxWindow
MaxInFlight == 2    \* fetches of one kind in flight at a time, where passes overlap

(***************************************************************************)
(* Time Grid                                                               *)
(***************************************************************************)
\* 15 * 60 * 1000: the slot length in milliseconds
QuarterMs == 15 * 60 * 1000

\* App.tsx: rem === 0 ? 0 : 15 min - rem
roundToNext15_App(ms) ==
    LET rem == ms % QuarterMs
    IN  ms + (IF rem = 0 THEN 0 ELSE QuarterMs - rem)

\* TJSJArrivals.tsx: rem ? 15 min - rem : 0
roundToNext15_TJSJ(ms) ==
    LET rem == ms % QuarterMs
    IN  ms + (IF rem # 0 THEN QuarterMs - rem ELSE 0)

\* App.tsx: for (i = 0; i < hours * 4; i++) push(start + i * 15 * 60000)
generateSlots_App(start, hours) ==
    [i \in 1..(hours * 4) |-> start + (i - 1) * 15 * 60000]

\* TJSJArrivals.tsx: while (cur < end) { push(cur); cur += 15 min }
RECURSIVE slotLoop_TJSJ(_, _, _)
slotLoop_TJSJ(cur, end, slots) ==
    IF cur < end
    THEN slotLoop_TJSJ(cur + 15 * 60 * 1000, end, Append(slots, cur))
    ELSE slots

generateSlots_TJSJ(start, totalHours) ==
    slotLoop_TJSJ(start, start + totalHours * 3600 * 1000, <<>>)

\* Date.getUTCMinutes(): the minute of the hour
getUTCMinutes(ms) == (ms \div 60000) % 60

\* Date.setUTCMinutes(m, 0, 0): the hour kept, minutes m, seconds and ms 0
setUTCMinutes(ms, m) == (ms - (ms % 3600000)) + m * 60000

\* dead-reckoning SectorMatrix: the start is floored to the quarter hour
generateSlots_DR(start, hours) ==
    LET base == setUTCMinutes(start, (getUTCMinutes(start) \div 15) * 15)
    IN  [i \in 1..(hours * 4) |-> base + (i - 1) * 15 * 60000]

(***************************************************************************)
(* SpecSlots: the three slot generators applied to an instant and a        *)
(* horizon, as their callers compose them.                                 *)
(***************************************************************************)
Instants == {m * 60000 + e : m \in 0..MaxMinute, e \in {0, 1}}

TgInit ==
    /\ tgNow \in Instants
    /\ tgHours \in 1..MaxHours
    /\ tgKind = "none"
    /\ tgSlots = <<>>
    /\ RsIdle /\ RtIdle /\ MxIdle /\ ClIdle /\ LmIdle

\* App.tsx 244-246: start = roundToNext15(now); setSlots(generateSlots(start, h))
SlotsRoute ==
    /\ tgKind = "none"
    /\ tgKind' = "route"
    /\ tgSlots' = generateSlots_App(roundToNext15_App(tgNow), tgHours)
    /\ UNCHANGED <<tgNow, tgHours, rsVars, rtVars, mxVars, clVars, lmVars>>

\* TJSJArrivals.tsx 65-67
SlotsGate ==
    /\ tgKind = "none"
    /\ tgKind' = "gate"
    /\ tgSlots' = generateSlots_TJSJ(roundToNext15_TJSJ(tgNow), tgHours)
    /\ UNCHANGED <<tgNow, tgHours, rsVars, rtVars, mxVars, clVars, lmVars>>

\* TJSJArrivals.tsx 309, 313: setSlots(generateSlots(new Date(), windowHours))
SlotsDead ==
    /\ tgKind = "none"
    /\ tgKind' = "dead"
    /\ tgSlots' = generateSlots_DR(tgNow, tgHours)
    /\ UNCHANGED <<tgNow, tgHours, rsVars, rtVars, mxVars, clVars, lmVars>>

TgNext == SlotsRoute \/ SlotsGate \/ SlotsDead

SpecSlots == TgInit /\ [][TgNext]_vars

\* The contract of the time grid for one generated sequence.
SlotContract(t, h, slots) ==
    /\ Len(slots) = 4 * h
    /\ \A i \in 1..(Len(slots) - 1) : slots[i + 1] - slots[i] = QuarterMs
    /\ slots[1] >= t
    /\ slots[1] - t < QuarterMs
    /\ (t % QuarterMs = 0 => slots[1] = t)

\* C1: for every instant t and horizon h >= 1, every slot generator (route-based,
\* gate, dead-reckoning) gives 4h slots 15 minutes apart whose first slot is >= t
\* and less than 15 minutes after t (equal to t on a boundary).
C1_SlotsEveryGenerator ==
    tgKind # "none" => SlotContract(tgNow, tgHours, tgSlots)

\* C1 restricted to the two generators that round up (route-based and gate).
C1_SlotsRoundingUp ==
    tgKind \in {"route", "gate"} => SlotContract(tgNow, tgHours, tgSlots)

\* C1 for the dead-reckoning generator: length and spacing hold, the first slot
\* is at or before t.
C1_SlotsDeadReckoning ==
    tgKind = "dead" =>
        /\ Len(tgSlots) = 4 * tgHours
        /\ \A i \in 1..(Len(tgSlots) - 1) : tgSlots[i + 1] - tgSlots[i] = QuarterMs
        /\ tgSlots[1] <= tgNow
        /\ tgNow - tgSlots[1] < QuarterMs

(***************************************************************************)
(* Strings.  A string is the sequence of its characters; the alphabet of   *)
(* the model is the characters below.                                      *)
(***************************************************************************)
UpperLetters == <<"A", "B", "C", "D", "E", "F", "G", "H", "I", "J", "K", "L", "M",
                  "N", "O", "P", "Q", "R", "S", "T", "U", "V", "W", "X", "Y", "Z">>
LowerLetters == <<"a", "b", "c", "d", "e", "f", "g", "h", "i", "j", "k", "l", "m",
                  "n", "o", "p", "q", "r", "s", "t", "u", "v", "w", "x", "y", "z">>
DigitChars == <<"0", "1", "2", "3", "4", "5", "6", "7", "8", "9">>
WhiteSpace == {" ", "\t", "\n", "\r"}

Range(f) == {f[i] : i \in DOMAIN f}
IndexOf(seq, c) == CHOOSE i \in DOMAIN seq : seq[i] = c

isUpper(c) == c \in Range(UpperLetters)
isDigit(c) == c \in Range(DigitChars)
digitValue(c) == IndexOf(DigitChars, c) - 1

\* String.toUpperCase()
toUpperCase(str) ==
    [i \in DOMAIN str |->
        IF str[i] \in Range(LowerLetters)
        THEN UpperLetters[IndexOf(LowerLetters, str[i])]
        ELSE str[i]]

\* String.split("/")[0]: the text before the first "/"
splitSlash0(str) ==
    IF \E i \in DOMAIN str : str[i] = "/"
    THEN SubSeq(str, 1, (CHOOSE i \in DOMAIN str :
                            /\ str[i] = "/"
                            /\ \A j \in 1..(i - 1) : str[j] # "/") - 1)
    ELSE str

\* String.trim()
trim(str) ==
    LET keep == {i \in DOMAIN str : str[i] \notin WhiteSpace}
    IN  IF keep = {} THEN <<>>
        ELSE SubSeq(str, CHOOSE i \in keep : \A j \in keep : i <= j,
                         CHOOSE i \in keep : \A j \in keep : i >= j)

\* parseInt of a string of decimal digits
RECURSIVE parseInt(_)
parseInt(str) ==
    IF str = <<>> THEN 0
    ELSE parseInt(SubSeq(str, 1, Len(str) - 1)) * 10 + digitValue(str[Len(str)])

allDigits(str, from, to) == \A i \in from..to : isDigit(str[i])

(***************************************************************************)
(* Coordinates are <<lat, lon>> in units of 1/Deg degree.                  *)
(***************************************************************************)
Deg == 10000
\* null / undefined where a coordinate or a list is expected: the empty tuple
null == <<>>
undefined == <<>>
\* getFixCoordAndName's null
nullFixData == [coord |-> null, name |-> <<>>]

\* ---- generated tables: begin
\* The coordinates that occur in the model, in 1/Deg degrees: <<lat, lon>>.

Points == <<
    <<170000, -660000>>,
    <<170000, -650000>>,
    <<170000, -640000>>,
    <<180000, -660000>>,
    <<180000, -650000>>,
    <<180000, -640000>>,
    <<190000, -660000>>,
    <<190000, -650000>>,
    <<190000, -640000>>,
    <<184394, -660018>>,
    <<184949, -671294>> >>

\* haversineDistance (App.tsx 573-580) between Points[i] and Points[j], in units of 10 m
HaversineTable == <<
    <<0, 10634, 21267, 11119, 15366, 23947, 22239, 24625, 30690, 16005, 20478>>,
    <<10634, 0, 10634, 15366, 11119, 15366, 24625, 22239, 24625, 19203, 28015>>,
    <<21267, 10634, 0, 23947, 15366, 11119, 30690, 24625, 22239, 26565, 37075>>,
    <<11119, 15366, 23947, 0, 10575, 21150, 11119, 15324, 23841, 4886, 13135>>,
    <<15366, 11119, 15366, 10575, 0, 10575, 15324, 11119, 15324, 11655, 23151>>,
    <<23947, 15366, 11119, 21150, 10575, 0, 23841, 15324, 11119, 21700, 33502>>,
    <<22239, 24625, 30690, 11119, 15324, 23841, 0, 10514, 21027, 6234, 13152>>,
    <<24625, 22239, 24625, 15324, 11119, 15324, 10514, 0, 10514, 12254, 23114>>,
    <<30690, 24625, 22239, 23841, 15324, 11119, 21027, 10514, 0, 21984, 33426>>,
    <<16005, 19203, 26565, 4886, 11655, 21700, 6234, 12254, 21984, 0, 11909>>,
    <<20478, 28015, 37075, 13135, 23151, 33502, 13152, 23114, 33426, 11909, 0>> >>

\* bearingBetween (App.tsx 495-501) from Points[i] to Points[j], in 1/100 degree
BearingTable == <<
    <<0, 8985, 8971, 0, 4349, 6204, 0, 2528, 4326, 35993, 32443>>,
    <<27015, 0, 8985, 31651, 0, 4349, 33472, 0, 2528, 32661, 30671>>,
    <<27029, 27015, 0, 29796, 31651, 0, 31674, 33472, 0, 30735, 29711>>,
    <<18000, 13621, 11736, 0, 8985, 8969, 0, 4332, 6189, 35978, 29494>>,
    <<22379, 18000, 13621, 27015, 0, 8985, 31668, 0, 4332, 29494, 28408>>,
    <<24264, 22379, 18000, 27031, 27015, 0, 29811, 31668, 0, 28332, 27994>>,
    <<18000, 15441, 13612, 18000, 13636, 11748, 0, 8984, 8967, 18017, 24490>>,
    <<20559, 18000, 15441, 22364, 18000, 13636, 27016, 0, 8984, 23958, 25628>>,
    <<22388, 20559, 18000, 24252, 22364, 18000, 27033, 27016, 0, 25385, 26083>>,
    <<17993, 14630, 12674, 17978, 11463, 10270, 17, 5926, 7321, 0, 27315>>,
    <<14409, 12607, 11615, 11459, 10342, 9896, 6454, 7560, 7983, 9279, 0>> >>

\* Math.atan2(dLon, dLat) * 180 / PI (App.tsx 171) from Points[i] to Points[j], in 1/100 degree
PlanarBearingTable == <<
    <<0, 9000, 9000, 0, 4500, 6343, 0, 2657, 4500, -7, -3707>>,
    <<-9000, 0, 9000, -4500, 0, 4500, -2657, 0, 2657, -3484, -5493>>,
    <<-9000, -9000, 0, -6343, -4500, 0, -4500, -2657, 0, -5428, -6447>>,
    <<18000, 13500, 11657, 0, 9000, 9000, 0, 4500, 6343, -23, -6634>>,
    <<-13500, 18000, 13500, -9000, 0, 9000, -4500, 0, 4500, -6632, -7692>>,
    <<-11657, -13500, 18000, -9000, -9000, 0, -6343, -4500, 0, -7762, -8101>>,
    <<18000, 15343, 13500, 18000, 13500, 11657, 0, 9000, 9000, -17982, -11410>>,
    <<-15343, 18000, 15343, -13500, 18000, 13500, -9000, 0, 9000, -11923, -10334>>,
    <<-13500, -15343, 18000, -11657, -13500, 18000, -9000, -9000, 0, -10564, -9917>>,
    <<17993, 14516, 12572, 17977, 11368, 10238, 18, 6077, 7436, 0, -8718>>,
    <<14293, 12507, 11553, 11366, 10308, 9899, 6590, 7666, 8083, 9282, 0>> >>
\* ---- generated tables: end

PointIndex(c) == CHOOSE i \in DOMAIN Points : Points[i] = c

\* haversineDistance(a, b), in units of 10 m (the code's unit is km)
haversineDistance(a, b) == HaversineTable[PointIndex(a)][PointIndex(b)]

\* bearingBetween(lat1, lon1, lat2, lon2), in 1/100 degree, in [0, 36000)
bearingBetween(a, b) == BearingTable[PointIndex(a)][PointIndex(b)]

\* Math.atan2(b.lon - a.lon, b.lat - a.lat) * (180 / Math.PI), in 1/100 degree
planarBearing(a, b) == PlanarBearingTable[PointIndex(a)][PointIndex(b)]

\* Math.hypot(dLat, dLon), squared: the resolver only compares two of them
hypotSq(dLat, dLon) == dLat * dLat + dLon * dLon

(***************************************************************************)
(* Fix Resolver                                                            *)
(***************************************************************************)
\* App.tsx 119 and 623-624: fix.split("/")[0].trim().toUpperCase()
cleanFix(fix) == toUpperCase(trim(splitSlash0(fix)))

\* /^\d{2}[NS]\d{3}[EW]$/ (case-sensitive)
matchesLatLon(fix) ==
    /\ Len(fix) = 7
    /\ allDigits(fix, 1, 2)
    /\ fix[3] \in {"N", "S"}
    /\ allDigits(fix, 4, 6)
    /\ fix[7] \in {"E", "W"}

\* App.tsx 121-122: /^[A-Z]{3,6}$/ or /^\d{2}[NS]\d{3}[EW]$/
isValidFix_App(fix) ==
    \/ (Len(fix) \in 3..6 /\ \A i \in DOMAIN fix : isUpper(fix[i]))
    \/ matchesLatLon(fix)

\* App.tsx 582-585: the token is cleaned again; /^[A-Z]{3,5}$/ or one of the
\* four hemisphere patterns
isValidFix_VRF(fix) ==
    LET cleaned == toUpperCase(splitSlash0(fix))
    IN  \/ (Len(cleaned) \in 3..5 /\ \A i \in DOMAIN cleaned : isUpper(cleaned[i]))
        \/ (Len(cleaned) = 7 /\ allDigits(cleaned, 1, 2) /\ cleaned[3] = "N"
                /\ allDigits(cleaned, 4, 6) /\ cleaned[7] = "W")
        \/ (Len(cleaned) = 7 /\ allDigits(cleaned, 1, 2) /\ cleaned[3] = "S"
                /\ allDigits(cleaned, 4, 6) /\ cleaned[7] = "W")
        \/ (Len(cleaned) = 7 /\ allDigits(cleaned, 1, 2) /\ cleaned[3] = "N"
                /\ allDigits(cleaned, 4, 6) /\ cleaned[7] = "E")
        \/ (Len(cleaned) = 7 /\ allDigits(cleaned, 1, 2) /\ cleaned[3] = "S"
                /\ allDigits(cleaned, 4, 6) /\ cleaned[7] = "E")

\* /^(\d{2})(N|S)(\d{3})(E|W)$/i applied to the argument as given
shortFormMatch(fix) ==
    /\ Len(fix) = 7
    /\ allDigits(fix, 1, 2)
    /\ fix[3] \in {"N", "S", "n", "s"}
    /\ allDigits(fix, 4, 6)
    /\ fix[7] \in {"E", "W", "e", "w"}

\* The mutant of parseLatLonFix_App: the longitude of hemisphere W is not negated.
parseLatLonFix_App_NoWest(fix) ==
    IF shortFormMatch(fix)
    THEN LET lat0 == parseInt(SubSeq(fix, 1, 2)) * Deg
             lon0 == parseInt(SubSeq(fix, 4, 6)) * Deg
             lat == IF toUpperCase(<<fix[3]>>) = <<"S">> THEN lat0 * (-1) ELSE lat0
         IN  <<lat, lon0>>
    ELSE null

\* App.tsx 124-134
parseLatLonFix_App(fix) ==
    IF shortFormMatch(fix)
    THEN LET lat0 == parseInt(SubSeq(fix, 1, 2)) * Deg
             lon0 == parseInt(SubSeq(fix, 4, 6)) * Deg
             lat == IF toUpperCase(<<fix[3]>>) = <<"S">> THEN lat0 * (-1) ELSE lat0
             lon == IF toUpperCase(<<fix[7]>>) = <<"W">> THEN lon0 * (-1) ELSE lon0
         IN  <<lat, lon>>
    ELSE null

\* /^(\d{2})(\d{2})(\d{2})(N|S)(\d{3})(\d{2})(\d{2})(E|W)$/i
longFormMatch(fix) ==
    /\ Len(fix) = 15
    /\ allDigits(fix, 1, 6)
    /\ fix[7] \in {"N", "S", "n", "s"}
    /\ allDigits(fix, 8, 14)
    /\ fix[15] \in {"E", "W", "e", "w"}

\* App.tsx 508-544: the short form, then the degree-minute-second form
\* (deg + min / 60 + sec / 3600, here rounded down to 1/Deg degree)
parseLatLonFix_VRF(fix) ==
    IF shortFormMatch(fix)
    THEN LET lat0 == parseInt(SubSeq(fix, 1, 2)) * Deg
             lon0 == parseInt(SubSeq(fix, 4, 6)) * Deg
             lat == IF toUpperCase(<<fix[3]>>) = <<"S">> THEN lat0 * (-1) ELSE lat0
             lon == IF toUpperCase(<<fix[7]>>) = <<"W">> THEN lon0 * (-1) ELSE lon0
         IN  <<lat, lon>>
    ELSE IF longFormMatch(fix)
    THEN LET latSec == parseInt(SubSeq(fix, 1, 2)) * 3600
                         + parseInt(SubSeq(fix, 3, 4)) * 60 + parseInt(SubSeq(fix, 5, 6))
             lonSec == parseInt(SubSeq(fix, 8, 10)) * 3600
                         + parseInt(SubSeq(fix, 11, 12)) * 60 + parseInt(SubSeq(fix, 13, 14))
             lat0 == (latSec * Deg) \div 3600
             lon0 == (lonSec * Deg) \div 3600
             lat == IF toUpperCase(<<fix[7]>>) = <<"S">> THEN lat0 * (-1) ELSE lat0
             lon == IF toUpperCase(<<fix[15]>>) = <<"W">> THEN lon0 * (-1) ELSE lon0
         IN  <<lat, lon>>
    ELSE null

\* Object.values(routesData).flat(): the waypoints of all airways, in table order
RECURSIVE flat(_)
flat(routesData) ==
    IF routesData = <<>> THEN <<>>
    ELSE routesData[1].wps \o flat(Tail(routesData))

\* App.tsx 220-228: fixMap[waypoint.toUpperCase()] lists the waypoints of that
\* name in table order
buildFixMap(routesData) ==
    LET all == flat(routesData)
        sameName(name) == LET Same(wp) == toUpperCase(wp.waypoint) = name
                          IN  SelectSeq(all, Same)
    IN  [name \in {toUpperCase(all[i].waypoint) : i \in DOMAIN all} |-> sameName(name)]

\* Array.reduce((a, b) => distA < distB ? a : b) over the candidates, given the
\* distance of each: the index of the candidate it returns (a is the accumulator,
\* i the next element)
RECURSIVE reduceClosest(_, _, _)
reduceClosest(dists, i, a) ==
    IF i > Len(dists) THEN a
    ELSE reduceClosest(dists, i + 1, IF dists[a] < dists[i] THEN a ELSE i)

\* App.tsx 144: fixCoords[clean]
lookupFix(fixCoords, clean) ==
    IF clean \in DOMAIN fixCoords THEN fixCoords[clean] ELSE undefined

\* App.tsx 147-152: the candidate reduce returns
closestFix_App(matches, dists) ==
    <<matches[reduceClosest(dists, 2, 1)].lat, matches[reduceClosest(dists, 2, 1)].lon>>

\* App.tsx 141-152: the literal, else the one candidate, else the closest
chooseFix_App(coordFix, matches, prev) ==
    IF coordFix # null THEN coordFix
    ELSE IF matches = undefined \/ Len(matches) = 0 THEN null
    ELSE IF Len(matches) = 1 \/ prev = undefined
    THEN <<matches[1].lat, matches[1].lon>>
    ELSE closestFix_App(matches,
                        [i \in DOMAIN matches |->
                            hypotSq(matches[i].lat - prev[1], matches[i].lon - prev[2])])

\* App.tsx 136-153.  The coordinate pattern is tried on the argument as given,
\* the table is looked up under the cleaned name.
getFixCoord(fix, fixCoords, prev) ==
    chooseFix_App(parseLatLonFix_App(fix), lookupFix(fixCoords, cleanFix(fix)), prev)

\* App.tsx 629-651
getFixCoordAndName(fix, routesData, prev) ==
    LET clean == cleanFix(fix)
        coordFix == parseLatLonFix_VRF(fix)
        Same(wp) == wp.waypoint = clean
        matches == SelectSeq(flat(routesData), Same)
    IN  IF coordFix # null THEN [coord |-> coordFix, name |-> clean]
        ELSE IF Len(matches) = 0 THEN nullFixData
        ELSE IF Len(matches) = 1 \/ prev = undefined
        THEN [coord |-> <<matches[1].lat, matches[1].lon>>, name |-> matches[1].waypoint]
        ELSE LET dists == [i \in DOMAIN matches |->
                              haversineDistance(prev, <<matches[i].lat, matches[i].lon>>)]
                 closest == matches[reduceClosest(dists, 2, 1)]
             IN  [coord |-> <<closest.lat, closest.lon>>, name |-> closest.waypoint]

(***************************************************************************)
(* Reference data and route tokens of the model.                           *)
(***************************************************************************)
P(lat, lon) == <<lat * Deg, lon * Deg>>
WP(order, waypoint, lat, lon) ==
    [order |-> order, waypoint |-> waypoint, lat |-> lat * Deg, lon |-> lon * Deg]

tAAA == <<"A", "A", "A">>
tBBB == <<"B", "B", "B">>
tCCC == <<"C", "C", "C">>
tDDD == <<"D", "D", "D">>
tDUP == <<"D", "U", "P">>
tZZZ == <<"Z", "Z", "Z">>                                  \* in no table
tLit == <<"1", "8", "N", "0", "6", "5", "W">>              \* 18N065W
tLitSE == <<"1", "7", "S", "0", "6", "6", "E">>            \* 17S066E
tLitLowerSuffix == <<"1", "8", "n", "0", "6", "5", "w", "/", "M", "0", "8">>
tBBBLowerSuffix == <<"b", "b", "b", "/", "N", "0", "4", "5", "0">>
tLong == <<"1", "8", "0", "0", "0", "0", "N", "0", "6", "5", "0", "0", "0", "0", "W">>
tAirway == <<"J", "1", "2", "1">>                          \* not a valid fix shape

RouteTokens == {tAAA, tBBB, tCCC, tDDD, tDUP, tZZZ, tLit, tLitSE, tLitLowerSuffix,
                tBBBLowerSuffix, tLong, tAirway, <<>>}

\* routes.json: the airways in file order, each an ordered list of waypoints.
\* DUP names three different fixes; one waypoint is named like a coordinate
\* literal and lies elsewhere.
TableFull == <<
    [airway |-> "A1", wps |-> <<WP(1, tAAA, 18, -66), WP(2, tBBB, 18, -65),
                                WP(3, tCCC, 18, -64)>>],
    [airway |-> "A2", wps |-> <<WP(1, tDUP, 18, -66), WP(2, tDDD, 19, -65)>>],
    [airway |-> "A3", wps |-> <<WP(1, tDUP, 18, -64), WP(2, tLit, 19, -66)>>],
    [airway |-> "A4", wps |-> <<WP(1, tDUP, 17, -65)>>] >>

\* The same airways in the opposite file order.
TableReversed == <<TableFull[4], TableFull[3], TableFull[2], TableFull[1]>>

RouteTables == {<<>>, TableFull, TableReversed}

GridPoints == {P(lat, lon) : lat \in 17..19, lon \in (-66)..(-64)}

(***************************************************************************)
(* SpecResolve: one route token resolved the way the route scans do it     *)
(* (the token is cleaned and filtered by isValidFix, then handed to the    *)
(* resolver with the scan's previous coordinate).                          *)
(***************************************************************************)
RsInit ==
    /\ rsToken \in RouteTokens
    /\ rsTable \in RouteTables
    /\ rsPrev \in GridPoints
    /\ rsOut = [kind |-> "none"]
    /\ TgIdle /\ RtIdle /\ MxIdle /\ ClIdle /\ LmIdle

\* App.tsx 158-169: map(cleanFix).filter(isValidFix), getFixCoord(seg, fixCoords, prev)
ResolveApp ==
    /\ rsOut.kind = "none"
    /\ LET seg == cleanFix(rsToken)
           valid == isValidFix_App(seg)
       IN  rsOut' = [kind |-> "app", seg |-> seg, valid |-> valid,
                     coord |-> IF valid
                               THEN getFixCoord(seg, buildFixMap(rsTable), rsPrev)
                               ELSE null]
    /\ UNCHANGED <<rsToken, rsTable, rsPrev, tgVars, rtVars, mxVars, clVars, lmVars>>

\* App.tsx 655-669: map(cleanFix).filter(isValidFix), getFixCoordAndName(fix, lastCoord)
ResolveVRF ==
    /\ rsOut.kind = "none"
    /\ LET seg == cleanFix(rsToken)
           valid == isValidFix_VRF(seg)
           fixData == IF valid THEN getFixCoordAndName(seg, rsTable, rsPrev)
                      ELSE nullFixData
       IN  rsOut' = [kind |-> "vrf", seg |-> seg, valid |-> valid,
                     coord |-> fixData.coord]
    /\ UNCHANGED <<rsToken, rsTable, rsPrev, tgVars, rtVars, mxVars, clVars, lmVars>>

RsNext == ResolveApp \/ ResolveVRF

SpecResolve == RsInit /\ [][RsNext]_vars

\* The candidates of the resolved name in table order, and the distance of each
\* to the previous coordinate in the metric of the resolver that ran.
RsCandidates ==
    LET Same(wp) == toUpperCase(wp.waypoint) = rsOut.seg
    IN  SelectSeq(flat(rsTable), Same)
RsDistance(wp) ==
    IF rsOut.kind = "app"
    THEN (wp.lat - rsPrev[1]) * (wp.lat - rsPrev[1]) + (wp.lon - rsPrev[2]) * (wp.lon - rsPrev[2])
    ELSE HaversineTable[PointIndex(rsPrev)][PointIndex(<<wp.lat, wp.lon>>)]
RsNearest ==
    {i \in DOMAIN RsCandidates :
        \A j \in DOMAIN RsCandidates : RsDistance(RsCandidates[i]) <= RsDistance(RsCandidates[j])}
RsDuplicate ==
    /\ rsOut.kind \in {"app", "vrf"}
    /\ rsOut.valid
    /\ ~ matchesLatLon(rsOut.seg)
    /\ Len(RsCandidates) >= 2
RsCoordOf(wp) == <<wp.lat, wp.lon>>

\* C2: with several candidates and a previous coordinate, the resolver returns a
\* candidate at minimal distance to the previous coordinate, and among those at
\* equal minimal distance the first in table order.
C2_NearestTiesFirst ==
    RsDuplicate =>
        rsOut.coord = RsCoordOf(RsCandidates[CHOOSE i \in RsNearest : \A j \in RsNearest : i <= j])

\* C2 without its tie rule: the candidate returned is at minimal distance.
C2_Nearest ==
    RsDuplicate => \E i \in RsNearest : rsOut.coord = RsCoordOf(RsCandidates[i])

\* C2 with the tie rule of the code: among the nearest, the last in table order.
C2_NearestTiesLast ==
    RsDuplicate =>
        rsOut.coord = RsCoordOf(RsCandidates[CHOOSE i \in RsNearest : \A j \in RsNearest : i >= j])

\* The coordinate a DDHDDDH literal denotes.
LiteralCoord(lit) ==
    <<(IF lit[3] = "S" THEN -1 ELSE 1)
          * (10 * digitValue(lit[1]) + digitValue(lit[2])) * Deg,
      (IF lit[7] = "W" THEN -1 ELSE 1)
          * (100 * digitValue(lit[4]) + 10 * digitValue(lit[5]) + digitValue(lit[6])) * Deg>>

\* C3: a route token whose normalized form (suffix stripped, upper-cased) is a
\* DDHDDDH literal resolves to (DD, DDD), negated for S and W, whatever the
\* table holds (also an empty one, also one that lists the literal as a
\* waypoint name elsewhere); it is never not-found.
C3_LiteralDecoded ==
    (rsOut.kind \in {"app", "vrf"} /\ matchesLatLon(cleanFix(rsToken))) =>
        rsOut.coord = LiteralCoord(cleanFix(rsToken))

\* C3 witness: the lower-case literal with a suffix, resolved to (18, -65)
\* against a table that lists a waypoint named 18N065W at (19, -66).
C3_Witness ==
    /\ rsOut.kind \in {"app", "vrf"}
    /\ rsOut.kind = "app"
    /\ rsToken = tLitLowerSuffix
    /\ \E i \in DOMAIN flat(rsTable) :
           flat(rsTable)[i].waypoint = tLit /\ flat(rsTable)[i].lat = 19 * Deg
    /\ rsOut.coord = <<18 * Deg, -65 * Deg>>

(***************************************************************************)
(* Route Projector                                                         *)
(***************************************************************************)
aTJSJ == <<"T", "J", "S", "J">>
aTJBQ == <<"T", "J", "B", "Q">>
aKJFK == <<"K", "J", "F", "K">>

\* Math.abs
abs(x) == IF x < 0 THEN -x ELSE x

\* Array.findIndex, 1-based; 0 when there is none (-1 in the code)
findIndex(seq, Test(_)) ==
    IF \E i \in DOMAIN seq : Test(seq[i])
    THEN CHOOSE i \in DOMAIN seq : Test(seq[i]) /\ \A j \in 1..(i - 1) : ~ Test(seq[j])
    ELSE 0

\* Array.reverse
reverse(seq) == [i \in DOMAIN seq |-> seq[Len(seq) + 1 - i]]

\* route.split(" ").map(cleanFix).filter(isValidFix): the route text is the
\* sequence of its space-separated tokens
segments_App(route) ==
    LET cleaned == [i \in DOMAIN route |-> cleanFix(route[i])]
    IN  SelectSeq(cleaned, isValidFix_App)
segments_VRF(route) ==
    LET cleaned == [i \in DOMAIN route |-> cleanFix(route[i])]
    IN  SelectSeq(cleaned, isValidFix_VRF)

\* App.tsx 171-173: headingDiff = |heading - bearingToFix| % 360,
\* headingDiff <= 30 || headingDiff >= 330 (angles in 1/100 degree)
headingDiffMatches(heading, bearingToFix) ==
    LET headingDiff == abs(heading * 100 - bearingToFix) % 36000
    IN  headingDiff <= 3000 \/ headingDiff >= 33000

\* App.tsx 503-506, tolerance = 30 (angles in 1/100 degree)
headingMatches(current, target) ==
    LET diff == abs(current * 100 - target)
    IN  diff <= 3000 \/ diff >= 36000 - 3000

\* The mutant of pushFix_App: a fix is kept only when its own bearing matches
\* (a per-fix filter instead of a one-time cut-over).
pushFix_App_PerFix(st, seg, coord, hit) ==
    [fixes |-> IF hit
               THEN Append(st.fixes, [order |-> Len(st.fixes) + 1, waypoint |-> seg,
                                      lat |-> coord[1], lon |-> coord[2]])
               ELSE st.fixes,
     prev |-> coord,
     foundMatch |-> st.foundMatch \/ hit,
     log |-> Append(st.log, [seg |-> seg, anchor |-> st.prev, coord |-> coord,
                             from |-> st.prev, tested |-> ~ st.foundMatch, test |-> hit])]

\* App.tsx 173-181: foundMatch is set by the first hit, the fix is pushed once
\* foundMatch is set, prev = coord.  st is <fixes, prev, foundMatch>; log
\* records, for each segment, the coordinate it was resolved against (anchor),
\* the coordinate found, the origin of the bearing and the outcome of the
\* heading test (tested: the test was evaluated, i.e. no match before).
pushFix_App(st, seg, coord, hit) ==
    [fixes |-> IF st.foundMatch \/ hit
               THEN Append(st.fixes, [order |-> Len(st.fixes) + 1, waypoint |-> seg,
                                      lat |-> coord[1], lon |-> coord[2]])
               ELSE st.fixes,
     prev |-> coord,
     foundMatch |-> st.foundMatch \/ hit,
     log |-> Append(st.log, [seg |-> seg, anchor |-> st.prev, coord |-> coord,
                             from |-> st.prev, tested |-> ~ st.foundMatch, test |-> hit])]

\* App.tsx 169-181: the loop body once the fix is looked up
testFix_App(st, seg, ac, coord) ==
    IF coord = null
    THEN [st EXCEPT !.log = Append(@, [seg |-> seg, anchor |-> st.prev, coord |-> null,
                                       from |-> st.prev, tested |-> FALSE,
                                       test |-> FALSE])]
    ELSE pushFix_App(st, seg, coord,
                     headingDiffMatches(ac.heading, planarBearing(st.prev, coord)))

\* App.tsx 167-182: one pass of the loop body
scanStep_App(st, seg, ac, fixCoords) ==
    testFix_App(st, seg, ac, getFixCoord(seg, fixCoords, st.prev))

RECURSIVE scan_App(_, _, _, _, _)
scan_App(segments, i, st, ac, fixCoords) ==
    IF i > Len(segments) THEN st
    ELSE scan_App(segments, i + 1, scanStep_App(st, segments[i], ac, fixCoords), ac, fixCoords)

\* App.tsx 155-185, with the log of the scan
getRemainingRouteScan(ac, fixCoords) ==
    LET st0 == [fixes |-> <<>>, prev |-> <<ac.latitude, ac.longitude>>,
                foundMatch |-> FALSE, log |-> <<>>]
    IN  IF (~ ac.flight_plan.present) \/ ac.flight_plan.route = <<>>
        THEN st0
        ELSE scan_App(segments_App(ac.flight_plan.route), 1, st0, ac, fixCoords)

\* App.tsx 155-185
getRemainingRoute(ac, fixCoords) == getRemainingRouteScan(ac, fixCoords).fixes

\* App.tsx 587-597: the hard-coded airports
airportCoords ==
    (aTJSJ :> <<184394, -660018>>)
    @@ (<<"T", "N", "C", "M">> :> <<180410, -631090>>)
    @@ (<<"T", "I", "S", "T">> :> <<183373, -649734>>)
    @@ (<<"T", "I", "S", "X">> :> <<177019, -647983>>)
    @@ (<<"T", "U", "P", "J">> :> <<184458, -645430>>)
    @@ (<<"M", "D", "P", "C">> :> <<185674, -683634>>)
    @@ (<<"M", "D", "S", "D">> :> <<184297, -696689>>)
    @@ (<<"M", "B", "P", "V">> :> <<217736, -722659>>)
    @@ (<<"M", "T", "P", "P">> :> <<185790, -722925>>)

\* airports.json: the general airport database (one airport of it)
airportDB == (aTJBQ :> [lat |-> 184949, lon |-> -671294])

\* A Date: an instant in ms after the start of the computation, or Invalid Date
validDate(ms) == [valid |-> TRUE, ms |-> ms]
invalidDate == [valid |-> FALSE, ms |-> 0]

\* App.tsx 676-677: min = (dist * 0.539957) / gs * 60; time + min * 60000.
\* With dist in units of 10 m that is dist * 19438.452 / gs milliseconds (rounded
\* down); a division by gs = 0 gives Invalid Date.
addLegTime_VRF(time, dist, gs) ==
    IF (~ time.valid) \/ gs = 0 THEN invalidDate
    ELSE validDate(time.ms + (dist * 19438 + (dist * 452) \div 1000) \div gs)

\* dist * 0.539957: kilometres to nautical miles (here units of 10 m to 1/1000 NM)
kmToNM(dist) == dist * 5 + (dist * 39957) \div 100000

\* App.tsx 684-703: the fixes of the first airway shared by name and cleanNext
\* that lie strictly between the two, in the direction of travel
airwaySlice(routesData, name, cleanNext) ==
    LET Has1(a) == \E k \in DOMAIN a.wps : a.wps[k].waypoint = name
        Has2(a) == \E k \in DOMAIN a.wps : a.wps[k].waypoint = cleanNext
        matches1 == SelectSeq(routesData, Has1)
        matches2 == SelectSeq(routesData, Has2)
        Shared(a1) == \E k \in DOMAIN matches2 : matches2[k].airway = a1.airway
        shared == findIndex(matches1, Shared)
    IN  IF shared = 0 THEN <<>>
        ELSE LET airwayFixes == matches1[shared].wps
                 Is1(wp) == wp.waypoint = name
                 Is2(wp) == wp.waypoint = cleanNext
                 idx1 == findIndex(airwayFixes, Is1)
                 idx2 == findIndex(airwayFixes, Is2)
             IN  IF idx1 # 0 /\ idx2 # 0 /\ abs(idx2 - idx1) > 1
                 THEN IF idx1 < idx2
                      THEN SubSeq(airwayFixes, idx1 + 1, idx2 - 1)
                      ELSE reverse(SubSeq(airwayFixes, idx2 + 1, idx1 - 1))
                 ELSE <<>>

\* App.tsx 694-702: the spliced fixes appended, each leg measured from lastCoord
RECURSIVE spliceLoop(_, _, _, _)
spliceLoop(st, slice, k, gs) ==
    IF k > Len(slice) THEN st
    ELSE LET coord == <<slice[k].lat, slice[k].lon>>
             dist == haversineDistance(st.lastCoord, coord)
             time == addLegTime_VRF(st.time, dist, gs)
         IN  spliceLoop([st EXCEPT !.time = time,
                                   !.path = Append(@, coord),
                                   !.labels = Append(@, [coord |-> coord,
                                                         name |-> slice[k].waypoint,
                                                         dist |-> kmToNM(dist), eta |-> time,
                                                         src |-> "airway"]),
                                   !.lastCoord = coord],
                        slice, k + 1, gs)

\* App.tsx 674-708: the body of if (matchFound).  labels carry, next to the
\* fields of the code, src: what appended the element (a route token, the
\* airway splice, the destination).
keepFix_VRF(st, segments, i, ac, routesData, fixData, entry, dist) ==
    LET time == addLegTime_VRF(st.time, dist, ac.groundspeed)
        kept == [st EXCEPT !.matchFound = TRUE,
                           !.time = time,
                           !.path = Append(@, fixData.coord),
                           !.labels = Append(@, [coord |-> fixData.coord,
                                                 name |-> fixData.name,
                                                 dist |-> kmToNM(dist),
                                                 eta |-> time, src |-> "token"]),
                           !.log = Append(@, entry)]
        spliced == IF i + 1 <= Len(segments)
                   THEN spliceLoop(kept,
                                   airwaySlice(routesData, fixData.name,
                                               cleanFix(segments[i + 1])),
                                   1, ac.groundspeed)
                   ELSE kept
    IN  [spliced EXCEPT !.lastCoord = fixData.coord]

\* App.tsx 669-708: the loop body once the fix is looked up; log is as in
\* scanStep_App.
testFix_VRF(st, segments, i, ac, routesData, fixData) ==
    LET here == <<ac.latitude, ac.longitude>>
        brng == bearingBetween(here, fixData.coord)
        hit == headingMatches(ac.heading, brng)
        matchFound == st.matchFound \/ hit
        entry == [seg |-> segments[i], anchor |-> st.lastCoord, coord |-> fixData.coord,
                  from |-> here, tested |-> (fixData.coord # null /\ ~ st.matchFound),
                  test |-> (fixData.coord # null /\ hit)]
    IN  IF fixData.coord = null THEN [st EXCEPT !.log = Append(@, entry)]
        ELSE IF ~ matchFound
        THEN [st EXCEPT !.log = Append(@, entry)]
        ELSE keepFix_VRF(st, segments, i, ac, routesData, fixData, entry,
                         haversineDistance(st.lastCoord, fixData.coord))

\* App.tsx 663-709: one pass of the loop body
scanStep_VRF(st, segments, i, ac, routesData) ==
    testFix_VRF(st, segments, i, ac, routesData,
                getFixCoordAndName(segments[i], routesData, st.lastCoord))

RECURSIVE scan_VRF(_, _, _, _, _)
scan_VRF(segments, i, st, ac, routesData) ==
    IF i > Len(segments) THEN st
    ELSE scan_VRF(segments, i + 1, scanStep_VRF(st, segments, i, ac, routesData),
                  ac, routesData)

\* App.tsx 712-727: the destination leg
appendDestination(st, ac) ==
    LET dest == toUpperCase(ac.flight_plan.arrival)
        known == dest \in DOMAIN airportCoords \/ dest \in DOMAIN airportDB
        destCoord == IF dest \in DOMAIN airportCoords THEN airportCoords[dest]
                     ELSE <<airportDB[dest].lat, airportDB[dest].lon>>
    IN  IF st.matchFound /\ known
        THEN LET dist == haversineDistance(st.lastCoord, destCoord)
                 time == addLegTime_VRF(st.time, dist, ac.groundspeed)
             IN  [st EXCEPT !.time = time,
                            !.path = Append(@, destCoord),
                            !.labels = Append(@, [coord |-> destCoord, name |-> dest,
                                                  dist |-> kmToNM(dist), eta |-> time,
                                                  src |-> "dest"])]
        ELSE st

\* App.tsx 547-570: mins = dist / (groundspeed / 60), eta + mins * 60 * 1000
\* (dist, the haversine distance in km, is in units of 10 m here:
\* dist * 36000 / groundspeed milliseconds)
RECURSIVE futureLoop(_, _, _, _, _, _)
futureLoop(path, i, prev, eta, groundspeed, result) ==
    IF i > Len(path) THEN result
    ELSE LET next == path[i]
             dist == haversineDistance(prev, next)
             eta2 == eta + (dist * 36000) \div groundspeed
         IN  futureLoop(path, i + 1, next, eta2, groundspeed,
                        Append(result, [coord |-> next, eta |-> validDate(eta2)]))

estimateFuturePositions(start, path, groundspeed) ==
    IF Len(path) = 0 \/ groundspeed <= 0 THEN <<>>
    ELSE futureLoop(path, 1, start, 0, groundspeed, <<>>)

\* App.tsx 654-731
extractRemainingRoute(ac, routesData) ==
    LET st0 == [path |-> <<>>, labels |-> <<>>, matchFound |-> FALSE,
                lastCoord |-> <<ac.latitude, ac.longitude>>, time |-> validDate(0),
                log |-> <<>>]
        scanned == scan_VRF(segments_VRF(ac.flight_plan.route), 1, st0, ac, routesData)
        st == appendDestination(scanned, ac)
    IN  [path |-> st.path, labels |-> st.labels,
         future |-> estimateFuturePositions(<<ac.latitude, ac.longitude>>, st.path,
                                            ac.groundspeed),
         log |-> st.log]

(***************************************************************************)
(* SpecRoute: the two route projections applied to an aircraft.            *)
(***************************************************************************)
RECURSIVE SeqsUpTo(_, _)
SeqsUpTo(S, n) ==
    IF n = 0 THEN {<<>>}
    ELSE LET shorter == SeqsUpTo(S, n - 1)
         IN  shorter \cup {Append(q, x) : q \in {r \in shorter : Len(r) = n - 1}, x \in S}

ScanTokens == {tAAA, tBBB, tCCC, tDUP, tZZZ}
Routes == SeqsUpTo(ScanTokens, MaxRouteLen)
Headings == {45, 90, 225, 350}

RouteAircraft ==
    {[latitude |-> pos[1], longitude |-> pos[2], heading |-> hdg,
      groundspeed |-> sa[1],
      flight_plan |-> [present |-> TRUE, route |-> route, arrival |-> sa[2]]] :
        pos \in {P(17, -66), P(19, -64)}, hdg \in Headings,
        sa \in {<<300, aTJSJ>>, <<300, aKJFK>>, <<0, aTJBQ>>}, route \in Routes}
    \cup
    {[latitude |-> 17 * Deg, longitude |-> -66 * Deg, heading |-> 90, groundspeed |-> 300,
      flight_plan |-> [present |-> FALSE, route |-> <<>>, arrival |-> <<>>]]}

RtInit ==
    /\ rtAc \in RouteAircraft
    /\ rtTable \in {TableFull, TableReversed}
    /\ rtOut = [kind |-> "none"]
    /\ TgIdle /\ RsIdle /\ MxIdle /\ ClIdle /\ LmIdle

\* App.tsx 266, 379: getRemainingRoute(ac, fixCoords)
ProjectApp ==
    /\ rtOut.kind = "none"
    /\ LET st == getRemainingRouteScan(rtAc, buildFixMap(rtTable))
       IN  rtOut' = [kind |-> "app", route |-> [i \in DOMAIN st.fixes |->
                                                   <<st.fixes[i].lat, st.fixes[i].lon>>],
                     fixes |-> st.fixes, log |-> st.log]
    /\ UNCHANGED <<rtAc, rtTable, tgVars, rsVars, mxVars, clVars, lmVars>>

\* App.tsx 607-613, 744: extractRemainingRoute for a pilot with a route
ProjectVRF ==
    /\ rtOut.kind = "none"
    /\ rtAc.flight_plan.present
    /\ rtAc.flight_plan.route # <<>>
    /\ LET r == extractRemainingRoute(rtAc, rtTable)
       IN  rtOut' = [kind |-> "vrf", route |-> r.path, labels |-> r.labels,
                     future |-> r.future, log |-> r.log]
    /\ UNCHANGED <<rtAc, rtTable, tgVars, rsVars, mxVars, clVars, lmVars>>

RtNext == ProjectApp \/ ProjectVRF

SpecRoute == RtInit /\ [][RtNext]_vars

RtDone == rtOut.kind \in {"app", "vrf"}
RtHere == <<rtAc.latitude, rtAc.longitude>>
RtResolved(i) == rtOut.log[i].coord # <<>>

\* The last successfully resolved coordinate before segment i, the aircraft's
\* position when there is none.
RtLastResolved(i) ==
    LET before == {j \in 1..(i - 1) : RtResolved(j)}
    IN  IF before = {} THEN RtHere
        ELSE rtOut.log[CHOOSE j \in before : \A k \in before : k <= j].coord

\* The circular difference of a bearing and a heading is at most 30 degrees.
RtWithin30(bearing, heading) ==
    LET d == (heading * 100 - bearing) % 36000
        folded == IF d > 18000 THEN 36000 - d ELSE d
    IN  folded <= 3000

RtBearing(from, to) ==
    IF rtOut.kind = "app"
    THEN PlanarBearingTable[PointIndex(from)][PointIndex(to)]
    ELSE BearingTable[PointIndex(from)][PointIndex(to)]

\* Segment i resolved and passed the heading test the projection applies to it.
RtHeadingMatch(i) ==
    /\ RtResolved(i)
    /\ RtWithin30(RtBearing(rtOut.log[i].from, rtOut.log[i].coord), rtAc.heading)

\* The resolved tokens from the first heading match onward.
RtExpected ==
    LET Kept(e) == e.keep
        marked == [i \in DOMAIN rtOut.log |->
                     [coord |-> rtOut.log[i].coord,
                      keep |-> RtResolved(i) /\ \E j \in 1..i : RtHeadingMatch(j)]]
        kept == SelectSeq(marked, Kept)
    IN  [i \in DOMAIN kept |-> kept[i].coord]

\* C4: the remaining route is exactly the resolved tokens from the first one that
\* satisfies the heading match onward, in route order; empty without a match or
\* without route text.
C4_ExactlyResolvedTokens ==
    RtDone => rtOut.route = RtExpected

\* C4 as amended: that is the whole route in getRemainingRoute; in
\* extractRemainingRoute it is the route's token elements, in order, the other
\* elements being airway fixes spliced in after a kept element and the
\* destination airport appended last, and the route is empty without a match.
C4_ResolvedTokensPlusSplice ==
    /\ rtOut.kind = "app" => rtOut.route = RtExpected
    /\ rtOut.kind = "vrf" =>
        LET FromToken(l) == l.src = "token"
            tokens == SelectSeq(rtOut.labels, FromToken)
            n == Len(rtOut.labels)
        IN  /\ rtOut.route = [i \in 1..n |-> rtOut.labels[i].coord]
            /\ [i \in DOMAIN tokens |-> tokens[i].coord] = RtExpected
            /\ (RtExpected = <<>> => rtOut.route = <<>>)
            /\ (n > 0 => rtOut.labels[1].src = "token")
            /\ \A i \in 1..n : rtOut.labels[i].src = "dest" => i = n

\* C4 witness: extractRemainingRoute skipped a resolved token before the first
\* heading match, kept the tokens after it and spliced an airway fix in.
C4_Witness ==
    /\ rtOut.kind = "vrf"
    /\ \E i \in DOMAIN rtOut.log : RtResolved(i) /\ ~ \E j \in 1..i : RtHeadingMatch(j)
    /\ \E i \in DOMAIN rtOut.labels : rtOut.labels[i].src = "airway"
    /\ Len(RtExpected) >= 2

\* C5: the heading test of a candidate fix takes the bearing from the current
\* anchor (the last successfully resolved coordinate, the aircraft's position
\* at first) and is true exactly when its circular difference to the heading
\* is at most 30 degrees.
C5_BearingFromAnchor ==
    RtDone =>
        \A i \in DOMAIN rtOut.log :
            rtOut.log[i].tested =>
                rtOut.log[i].test
                    = RtWithin30(RtBearing(RtLastResolved(i), rtOut.log[i].coord), rtAc.heading)

\* C5 for getRemainingRoute alone.
C5_BearingFromAnchor_App ==
    rtOut.kind = "app" => C5_BearingFromAnchor

\* C5 as extractRemainingRoute does it: the bearing is taken from the aircraft.
C5_BearingFromAircraft_VRF ==
    rtOut.kind = "vrf" =>
        \A i \in DOMAIN rtOut.log :
            rtOut.log[i].tested =>
                rtOut.log[i].test
                    = RtWithin30(RtBearing(RtHere, rtOut.log[i].coord), rtAc.heading)

\* C6: every token is resolved against the coordinate of the most recently
\* resolved token (the aircraft's position until one resolves), before and
\* after the heading match; an unresolvable token does not end the scan, adds
\* nothing to the route and leaves the anchor as it was.
C6_AnchorIsLastResolved ==
    RtDone =>
        /\ Len(rtOut.log) = Len(IF rtOut.kind = "app"
                                THEN segments_App(rtAc.flight_plan.route)
                                ELSE segments_VRF(rtAc.flight_plan.route))
        /\ \A i \in DOMAIN rtOut.log : rtOut.log[i].anchor = RtLastResolved(i)
        /\ \A i \in DOMAIN rtOut.log :
              (~ RtResolved(i) /\ i < Len(rtOut.log)) => rtOut.log[i + 1].anchor = rtOut.log[i].anchor

\* C6 for getRemainingRoute alone.
C6_AnchorIsLastResolved_App ==
    rtOut.kind = "app" => C6_AnchorIsLastResolved

\* C6 as extractRemainingRoute does it: the anchor is the last kept token's
\* coordinate, and the aircraft's position until the heading match.
C6_AnchorIsLastKept_VRF ==
    rtOut.kind = "vrf" =>
        \A i \in DOMAIN rtOut.log :
            LET kept == {j \in 1..(i - 1) : RtResolved(j) /\ \E k \in 1..j : RtHeadingMatch(k)}
            IN  rtOut.log[i].anchor
                  = IF kept = {} THEN RtHere
                    ELSE rtOut.log[CHOOSE j \in kept : \A k \in kept : k <= j].coord

(***************************************************************************)
(* Capacity matrices.  Polygon tests run on coordinates in 1/100 degree,   *)
(* [lon, lat] as in GeoJSON; the positions of the model lie at least 0.02  *)
(* degree away from every polygon edge.                                    *)
(***************************************************************************)
aTIST == <<"T", "I", "S", "T">>
aTISX == <<"T", "I", "S", "X">>
aTUPJ == <<"T", "U", "P", "J">>
aTJIG == <<"T", "J", "I", "G">>
aTJRV == <<"T", "J", "R", "V">>
aTJVQ == <<"T", "J", "V", "Q">>

\* App.tsx 83
zsu_airports == {aTJSJ, aTIST, aTISX, aTUPJ, aTJIG, aTJRV, aTJVQ}
\* TJSJArrivals.tsx 228: the same list
ARRIVAL_AIRPORTS_IGNORE_ALT == {aTJSJ, aTIST, aTISX, aTUPJ, aTJIG, aTJRV, aTJVQ}

\* App.tsx 85-87, TJSJArrivals.tsx 229-231
CENTER_SECTORS == {"Sector 2", "Sector 4", "Sector 6", "Sector 8"}
APPROACH_SECTORS == {"Sector 1", "Sector 3", "Sector 5", "Sector 7", "Sector 9"}
ALL_SECTORS == CENTER_SECTORS \cup APPROACH_SECTORS

\* TJSJArrivals.tsx 6
gSAALR == <<"S", "A", "A", "L", "R">>
gBEANO == <<"B", "E", "A", "N", "O">>
gJOSHE == <<"J", "O", "S", "H", "E">>
gVEDAS == <<"V", "E", "D", "A", "S">>
gSTT == <<"S", "T", "T">>
GATES == <<gSAALR, gBEANO, gJOSHE, gVEDAS, gSTT>>
UNKNOWN == <<"U", "N", "K", "N", "O", "W", "N">>

\* App.tsx 89-97, TJSJArrivals.tsx 233-241: the ring, vertices rounded to 1/100 degree
predictionBoundary ==
    << <<-8740, 2981>>, <<-8359, 1555>>, <<-7525, 586>>, <<-5322, 226>>,
       <<-4399, 2621>>, <<-6848, 3720>>, <<-8740, 2981>> >>

\* A coordinate of the model (1/Deg degree) in 1/100 degree
centi(v) == (v + 50) \div 100

\* turfPoint([lon, lat])
turfPoint(lon, lat) == <<centi(lon), centi(lat)>>

\* @turf/boolean-point-in-polygon, one edge: the point lies on the edge
onSegment(x, y, xi, yi, xj, yj) ==
    /\ y * (xi - xj) + yi * (xj - x) + yj * (x - xi) = 0
    /\ (xi - x) * (xj - x) <= 0
    /\ (yi - y) * (yj - y) <= 0

\* @turf/boolean-point-in-polygon, one edge: the ray from the point crosses it
\* (x < (xj - xi) * (y - yi) / (yj - yi) + xi, without the division)
rayCrosses(x, y, xi, yi, xj, yj) ==
    /\ (yi > y) # (yj > y)
    /\ IF yj > yi
       THEN (x - xi) * (yj - yi) < (xj - xi) * (y - yi)
       ELSE (x - xi) * (yj - yi) > (xj - xi) * (y - yi)

\* @turf/boolean-point-in-polygon on a polygon of one closed ring; a point on
\* the boundary is inside
booleanPointInPolygon(pt, ring) ==
    LET n == Len(ring) - 1
        before(i) == IF i = 1 THEN n ELSE i - 1
    IN  \/ \E i \in 1..n :
              onSegment(pt[1], pt[2], ring[i][1], ring[i][2],
                        ring[before(i)][1], ring[before(i)][2])
        \/ Cardinality({i \in 1..n :
              rayCrosses(pt[1], pt[2], ring[i][1], ring[i][2],
                         ring[before(i)][1], ring[before(i)][2])}) % 2 = 1

\* A rectangular ring, corners in 1/100 degree
Rect(lon0, lat0, lon1, lat1) ==
    << <<lon0, lat0>>, <<lon1, lat0>>, <<lon1, lat1>>, <<lon0, lat1>>, <<lon0, lat0>> >>

\* zsu_sector_boundaries.geojson: features {properties {sector, max_alt?}, geometry}.
\* Sector 2 (center) holds the fixes AAA and BBB; Sector 1 (approach) and
\* Sector 6 (center) hold BBB; Sector 4 (center, no max_alt) holds CCC; the
\* last feature names no declared sector.
SectorFeatures ==
    << [properties |-> [sector |-> "Sector 2", max_alt |-> 24000],
        geometry |-> Rect(-6650, 1750, -6450, 1850)],
       [properties |-> [sector |-> "Sector 1", max_alt |-> 6000],
        geometry |-> Rect(-6550, 1750, -6450, 1850)],
       [properties |-> [sector |-> "Sector 6", max_alt |-> 7000],
        geometry |-> Rect(-6550, 1750, -6450, 1850)],
       [properties |-> [sector |-> "Sector 4"],
        geometry |-> Rect(-6450, 1750, -6350, 1850)],
       [properties |-> [sector |-> "Sector X", max_alt |-> 60000],
        geometry |-> Rect(-6650, 1750, -6350, 1850)] >>

\* Math.min
min(a, b) == IF a < b THEN a ELSE b

\* String.includes on a token of the route text
includes(text, g) ==
    \E i \in 1..(Len(text) - Len(g) + 1) : SubSeq(text, i, i + Len(g) - 1) = g

\* The mutant of tally: a row only for the keys that were incremented
\* (no rows pre-initialized to zero).
tally_OnlyCounted(keys, n, cells) ==
    [key \in {c[3] : c \in cells} |->
        [idx \in 1..n |-> Cardinality({c \in cells : c[3] = key /\ c[4] = idx})]]

\* counts of the cells: for every key a row of n counts, cells holding one
\* tuple <<aircraft, feature, key, idx>> per execution of counts[key][idx]++
tally(keys, n, cells) ==
    [key \in keys |->
        [idx \in 1..n |-> Cardinality({c \in cells : c[3] = key /\ c[4] = idx})]]

\* ---- generated matrix tables: begin
\* estimateFuturePosition (TJSJArrivals.tsx 280-295): for <<latitude, longitude,
\* heading, speed>>, the position [lon, lat] after 0, 5, 10, ... minutes
FuturePositionTable ==
    (<<180000, -660000, 90, 300>> :>
      << <<-660000, 180000>>, <<-655622, 179995>>, <<-651244, 179980>>, <<-646866, 179956>>,
         <<-642488, 179921>>, <<-638111, 179877>>, <<-633733, 179823>>, <<-629356, 179759>>,
         <<-624979, 179685>>, <<-620603, 179602>>, <<-616227, 179509>>, <<-611852, 179406>>,
         <<-607477, 179293>>, <<-603103, 179170>>, <<-598729, 179038>>, <<-594356, 178895>>,
         <<-589984, 178743>>, <<-585612, 178582>>, <<-581242, 178410>>, <<-576872, 178229>>,
         <<-572503, 178038>>, <<-568135, 177838>>, <<-563768, 177627>>, <<-559402, 177407>>,
         <<-555037, 177178>>, <<-550674, 176939>>, <<-546311, 176690>>, <<-541950, 176431>>,
         <<-537590, 176163>>, <<-533231, 175886>>, <<-528874, 175599>>, <<-524518, 175302>>,
         <<-520164, 174996>>, <<-515811, 174680>>, <<-511459, 174355>>, <<-507110, 174020>>,
         <<-502761, 173676>>, <<-498415, 173323>>, <<-494070, 172960>>, <<-489727, 172588>>,
         <<-485386, 172207>>, <<-481046, 171816>>, <<-476708, 171416>>, <<-472373, 171007>>,
         <<-468039, 170588>>, <<-463707, 170161>>, <<-459377, 169724>>, <<-455049, 169278>>,
         <<-450723, 168823>>, <<-446399, 168359>>, <<-442078, 167885>>, <<-437758, 167403>>,
         <<-433441, 166912>>, <<-429126, 166412>>, <<-424814, 165903>>, <<-420503, 165385>>,
         <<-416195, 164858>>, <<-411890, 164323>>, <<-407586, 163779>>, <<-403286, 163226>>,
         <<-398987, 162664>> >>)
    @@ (<<180000, -660000, 90, 450>> :>
      << <<-660000, 180000>>, <<-653433, 179989>>, <<-646866, 179956>>, <<-640299, 179900>>,
         <<-633733, 179823>>, <<-627168, 179724>>, <<-620603, 179602>>, <<-614039, 179458>>,
         <<-607477, 179293>>, <<-600916, 179105>>, <<-594356, 178895>>, <<-587798, 178664>>,
         <<-581242, 178410>>, <<-574687, 178135>>, <<-568135, 177838>>, <<-561585, 177519>>,
         <<-555037, 177178>>, <<-548492, 176815>>, <<-541950, 176431>>, <<-535411, 176026>>,
         <<-528874, 175599>>, <<-522341, 175150>>, <<-515811, 174680>>, <<-509284, 174189>>,
         <<-502761, 173676>>, <<-496242, 173143>>, <<-489727, 172588>>, <<-483216, 172013>>,
         <<-476708, 171416>>, <<-470205, 170799>>, <<-463707, 170161>>, <<-457213, 169502>>,
         <<-450723, 168823>>, <<-444238, 168123>>, <<-437758, 167403>>, <<-431284, 166663>>,
         <<-424814, 165903>>, <<-418349, 165123>>, <<-411890, 164323>>, <<-405436, 163503>>,
         <<-398987, 162664>>, <<-392544, 161805>>, <<-386107, 160927>>, <<-379675, 160029>>,
         <<-373250, 159113>>, <<-366830, 158177>>, <<-360416, 157223>>, <<-354008, 156249>>,
         <<-347607, 155258>>, <<-341211, 154248>>, <<-334822, 153219>>, <<-328440, 152173>>,
         <<-322063, 151108>>, <<-315693, 150026>>, <<-309330, 148926>>, <<-302973, 147808>>,
         <<-296623, 146673>>, <<-290279, 145521>>, <<-283942, 144352>>, <<-277612, 143165>>,
         <<-271288, 141962>> >>)

\* getDistanceNM (TJSJArrivals.tsx 34-44) from <<latitude, longitude>> to
\* TJSJ_COORDS, in 1/100 NM
GateDistanceTable ==
    (<<180000, -660000>> :> 2638)
    @@ (<<370000, -660000>> :> 111440)
\* ---- generated matrix tables: end

(***************************************************************************)
(* The route-based SectorMatrix (App.tsx 249-312)                          *)
(***************************************************************************)
\* App.tsx 260-262: the aircraft is kept
preFilter_App(ac) ==
    /\ ~ (ac.altitude < 100 \/ ~ ac.flight_plan.present \/ ac.flight_plan.route = <<>>)
    /\ booleanPointInPolygon(turfPoint(ac.longitude, ac.latitude), predictionBoundary)

\* The mutant of altCheck_App: the altitude gate without the exempt list.
altCheck_App_NoExemption(ac, props) ==
    ac.altitude <= (IF "max_alt" \in DOMAIN props THEN props.max_alt ELSE 60000)

\* App.tsx 288-291: maxAlt = props.max_alt ?? 60000; ignoreAlt || altitude <= maxAlt
altCheck_App(ac, props) ==
    \/ ac.flight_plan.arrival \in zsu_airports
    \/ ac.altitude <= (IF "max_alt" \in DOMAIN props THEN props.max_alt ELSE 60000)

\* App.tsx 297-301
alsoInApproach(futurePoint, features) ==
    \E k \in DOMAIN features :
        /\ features[k].properties.sector \in APPROACH_SECTORS
        /\ booleanPointInPolygon(futurePoint, features[k].geometry)

\* App.tsx 284-305: temp[props.sector][idx]++ runs for this feature
incrementsCell_App(ac, feature, futurePoint, features) ==
    /\ feature.properties.sector \in ALL_SECTORS
    /\ altCheck_App(ac, feature.properties)
    /\ booleanPointInPolygon(futurePoint, feature.geometry)
    /\ ~ (/\ feature.properties.sector \in CENTER_SECTORS
          /\ ac.altitude <= 10000
          /\ alsoInApproach(futurePoint, features))

\* App.tsx 278-279: minutesAhead = (slot - now) / 60000;
\* fixIdx = min(floor(minutesAhead / (windowHours * 60) * length), length - 1)
fixIdx_App(slot, now, windowHours, length) ==
    min(((slot - now) * length) \div (windowHours * 3600000), length - 1)

\* App.tsx 280-282: routeFixes[fixIdx] as a point, undefined without a fix
futurePoint_App(routeFixes, slot, now, windowHours) ==
    IF Len(routeFixes) = 0 \/ fixIdx_App(slot, now, windowHours, Len(routeFixes)) < 0
    THEN undefined
    ELSE turfPoint(routeFixes[fixIdx_App(slot, now, windowHours, Len(routeFixes)) + 1].lon,
                   routeFixes[fixIdx_App(slot, now, windowHours, Len(routeFixes)) + 1].lat)

\* App.tsx 270-275: the features whose present-now count the aircraft increments
presentCells_App(a, ac, features) ==
    {<<a, f, features[f].properties.sector>> : f \in
        {g \in DOMAIN features :
            /\ features[g].properties.sector \in ALL_SECTORS
            /\ booleanPointInPolygon(turfPoint(ac.longitude, ac.latitude),
                                     features[g].geometry)}}

\* App.tsx 277-307: the cells the aircraft increments
slotCells_App(a, ac, routeFixes, features, slots, now, windowHours) ==
    {<<a, c[1], features[c[1]].properties.sector, c[2]>> : c \in
        {d \in (DOMAIN features) \X (DOMAIN slots) :
            /\ futurePoint_App(routeFixes, slots[d[2]], now, windowHours) # undefined
            /\ incrementsCell_App(ac, features[d[1]],
                                  futurePoint_App(routeFixes, slots[d[2]], now, windowHours),
                                  features)}}

\* App.tsx 266-307: the body of aircraftData.forEach after the pre-filter
routePass_App(a, ac, routeFixes, features, slots, now, windowHours) ==
    IF Len(routeFixes) = 0
    THEN [present |-> {}, cells |-> {}]
    ELSE [present |-> presentCells_App(a, ac, features),
          cells |-> slotCells_App(a, ac, routeFixes, features, slots, now, windowHours)]

\* App.tsx 259-308: the body of aircraftData.forEach
aircraftPass_App(a, ac, features, slots, fixCoords, now, windowHours) ==
    IF ~ preFilter_App(ac)
    THEN [present |-> {}, cells |-> {}]
    ELSE routePass_App(a, ac, getRemainingRoute(ac, fixCoords), features, slots, now,
                       windowHours)

\* App.tsx 251-255, 310-311: temp and presentNow after the loop, passes holding
\* what each aircraft incremented; a count is the number of its increments
tallies_App(passes, n) ==
    [counts |-> tally(ALL_SECTORS, n, UNION {passes[a].cells : a \in DOMAIN passes}),
     present |-> [s \in ALL_SECTORS |->
                    Cardinality({c \in UNION {passes[a].present : a \in DOMAIN passes} :
                                    c[3] = s})]]

\* App.tsx 249-312: the aggregation effect
aggregate_App(aircraftData, features, slots, fixCoords, now, windowHours) ==
    tallies_App([a \in DOMAIN aircraftData |->
                    aircraftPass_App(a, aircraftData[a], features, slots, fixCoords, now,
                                     windowHours)],
                Len(slots))

(***************************************************************************)
(* The dead-reckoning SectorMatrix (TJSJArrivals.tsx 319-355)              *)
(***************************************************************************)
\* TJSJArrivals.tsx 280-295, by the table; ac.groundspeed || 450; minsAhead in ms
estimateFuturePosition(ac, minsAhead) ==
    FuturePositionTable[<<ac.latitude, ac.longitude, ac.heading,
                          IF ac.groundspeed = 0 THEN 450 ELSE ac.groundspeed>>]
                       [minsAhead \div (5 * 60 * 1000) + 1]

\* TJSJArrivals.tsx 329-332: the aircraft is kept
preFilter_DR(ac) ==
    /\ ~ (ac.altitude < 100)
    /\ booleanPointInPolygon(turfPoint(ac.longitude, ac.latitude), predictionBoundary)

\* TJSJArrivals.tsx 344: includes(arrival) || altitude <= props.max_alt
\* (a comparison with an undefined max_alt is false)
altCheck_DR(ac, props) ==
    \/ ac.flight_plan.arrival \in ARRIVAL_AIRPORTS_IGNORE_ALT
    \/ ("max_alt" \in DOMAIN props /\ ac.altitude <= props.max_alt)

\* TJSJArrivals.tsx 337-338: the projected point of a slot not in the past
futurePoint_DR(ac, slot, now) ==
    turfPoint(estimateFuturePosition(ac, slot - now)[1],
              estimateFuturePosition(ac, slot - now)[2])

\* TJSJArrivals.tsx 340-350: temp[props.sector][idx]++ runs for this feature
incrementsCell_DR(ac, feature, p) ==
    /\ feature.properties.sector \in ALL_SECTORS
    /\ altCheck_DR(ac, feature.properties)
    /\ booleanPointInPolygon(p, feature.geometry)

\* TJSJArrivals.tsx 328-352: the body of aircraftData.forEach
aircraftPass_DR(a, ac, features, slots, now) ==
    IF ~ preFilter_DR(ac)
    THEN {}
    ELSE {<<a, c[1], features[c[1]].properties.sector, c[2]>> : c \in
            {d \in (DOMAIN features) \X (DOMAIN slots) :
                /\ ~ (slots[d[2]] - now < 0)
                /\ incrementsCell_DR(ac, features[d[1]],
                                     futurePoint_DR(ac, slots[d[2]], now))}}

\* TJSJArrivals.tsx 319-355: the aggregation effect
aggregate_DR(aircraftData, features, slots, now) ==
    tally(ALL_SECTORS, Len(slots),
          UNION {aircraftPass_DR(a, aircraftData[a], features, slots, now) :
                    a \in DOMAIN aircraftData})

(***************************************************************************)
(* The gate matrix (TJSJArrivals.tsx 64-101)                               *)
(***************************************************************************)
\* TJSJArrivals.tsx 26-32; 0-based, -1 when no slot holds d
bucketIndex(d, slots) ==
    IF \E i \in DOMAIN slots : d >= slots[i] /\ d < slots[i] + 15 * 60 * 1000
    THEN (CHOOSE i \in DOMAIN slots :
             /\ d >= slots[i] /\ d < slots[i] + 15 * 60 * 1000
             /\ \A j \in 1..(i - 1) : ~ (d >= slots[j] /\ d < slots[j] + 15 * 60 * 1000)) - 1
    ELSE -1

\* TJSJArrivals.tsx 34-44, by the table: the distance to TJSJ_COORDS in 1/100 NM
getDistanceNM(lat, lon) == GateDistanceTable[<<lat, lon>>]

\* TJSJArrivals.tsx 81-84: speed = groundspeed || 450;
\* msToDest = distanceNM / speed * 3600000; eta = Date.now() + msToDest
eta_TJSJ(p, now) ==
    now + ((getDistanceNM(p.latitude, p.longitude) * 3600)
              \div (IF p.groundspeed = 0 THEN 450 ELSE p.groundspeed)) * 10

\* The mutant of gateOf: the last gate, in declared order, that the route names.
gateOf_LastNamed(route) ==
    LET Named(g) == \E t \in DOMAIN route : includes(toUpperCase(route[t]), g)
    IN  IF \A k \in DOMAIN GATES : ~ Named(GATES[k]) THEN UNKNOWN
        ELSE GATES[CHOOSE k \in DOMAIN GATES :
                      Named(GATES[k]) /\ \A j \in DOMAIN GATES : Named(GATES[j]) => j <= k]

\* TJSJArrivals.tsx 89-90: the first gate named in the upper-cased route text
gateOf(route) ==
    LET Named(g) == \E t \in DOMAIN route : includes(toUpperCase(route[t]), g)
    IN  IF findIndex(GATES, Named) = 0 THEN UNKNOWN ELSE GATES[findIndex(GATES, Named)]

\* TJSJArrivals.tsx 77-94: the cell each arrival increments
cells_TJSJ(pilots, slotSet, now) ==
    {<<a, 0, gateOf(pilots[a].flight_plan.route), bucketIndex(eta_TJSJ(pilots[a], now), slotSet) + 1>> :
        a \in {b \in DOMAIN pilots :
                 /\ pilots[b].flight_plan.present
                 /\ pilots[b].flight_plan.arrival = aTJSJ
                 /\ ~ (pilots[b].altitude < 100)
                 /\ bucketIndex(eta_TJSJ(pilots[b], now), slotSet) # -1}}

\* TJSJArrivals.tsx 68-94: countInit after the pass; the UNKNOWN row exists
\* once an arrival names no gate
aggregate_TJSJ(pilots, slotSet, now) ==
    tally({GATES[i] : i \in DOMAIN GATES}
              \cup {c[3] : c \in cells_TJSJ(pilots, slotSet, now)},
          Len(slotSet), cells_TJSJ(pilots, slotSet, now))

(***************************************************************************)
(* SpecMatrix: one of the three matrix components, mounted at clock 0,     *)
(* with its timers, its fetches and its window input.                      *)
(***************************************************************************)
\* The clock advances in steps of five minutes.
TickMs == 5 * 60 * 1000

MxIn == P(18, -66)      \* inside Sector 2 only
MxFar == P(37, -66)     \* outside the prediction boundary

NoPlan == [present |-> FALSE, route |-> <<>>, arrival |-> <<>>]
Plan(route, arrival) == [present |-> TRUE, route |-> route, arrival |-> arrival]

\* A pilot of the telemetry feed: heading 90 from MxIn leads to the fix BBB.
Pilot(pos, altitude, groundspeed, flight_plan) ==
    [latitude |-> pos[1], longitude |-> pos[2], altitude |-> altitude, heading |-> 90,
     groundspeed |-> groundspeed, flight_plan |-> flight_plan]

MxCompanion == Pilot(MxIn, 12000, 300, Plan(<<tBBB>>, aKJFK))

\* An arrival whose route text names two gates, the later-declared one first
\* and in lower case.
MxTwoGates == Pilot(MxIn, 8000, 300, Plan(<<<<"b", "e", "a", "n", "o">>, gSAALR>>, aTJSJ))

MxAircraft ==
    {Pilot(MxIn, 50, 300, Plan(<<gSAALR, tBBB>>, aTJSJ)),      \* below 100 ft
     Pilot(MxIn, 8000, 300, NoPlan),                           \* no flight plan
     Pilot(MxIn, 8000, 300, Plan(<<>>, aTJSJ)),                \* no route text
     Pilot(MxFar, 8000, 300, Plan(<<gSAALR, tBBB>>, aTJSJ)),   \* outside the boundary
     Pilot(MxIn, 8000, 300, Plan(<<gSAALR, tBBB>>, aTJSJ)),    \* exempt arrival, low
     Pilot(MxIn, 30000, 300, Plan(<<gSAALR, tBBB>>, aTJSJ)),   \* exempt arrival, high
     Pilot(MxIn, 8000, 300, Plan(<<tBBB>>, aKJFK)),            \* other arrival, low
     MxCompanion,
     Pilot(MxIn, 30000, 300, Plan(<<tBBB>>, aKJFK)),           \* other arrival, high
     Pilot(MxIn, 12000, 300, Plan(<<tZZZ>>, aTJSJ)),           \* no fix resolves
     Pilot(MxIn, 8000, 0, Plan(<<gSAALR, tBBB>>, aTJSJ)),      \* groundspeed unreported
     MxTwoGates}

\* data.pilots of a telemetry response
MxSnapshots ==
    {<<>>} \cup {<<a>> : a \in MxAircraft} \cup {<<MxCompanion, a>> : a \in MxAircraft}
    \cup {<<MxTwoGates, Pilot(MxIn, 8000, 300, Plan(<<>>, aTJSJ))>>}

\* data.pilots of a telemetry response where fetches overlap
MxFewSnapshots == {<<>>, <<Pilot(MxIn, 8000, 300, Plan(<<gSAALR, tBBB>>, aTJSJ))>>}

NoFetch == [sectors |-> 0, routes |-> 0, telemetry |-> 0, passes |-> <<>>]

\* TJSJArrivals.tsx 65-67: the slots of a gate pass, fixed when the pass starts
startPass_TJSJ(now, windowHours) ==
    [slotSet |-> generateSlots_TJSJ(roundToNext15_TJSJ(now), windowHours)]

\* What a render shows of slots and a matrix: the number of slot columns and
\* the numbers of counts of the rows.
Rendered(slots, counts) ==
    [slots |-> Len(slots), rows |-> {Len(counts[k]) : k \in DOMAIN counts}]

\* What consumers are shown: the slots and the matrix.
Exposed(slots, counts, present) == <<slots, counts, present>>

\* A telemetry cycle in flight: wrote, whether the handler that started it
\* changed what is exposed; overtaken, whether a cycle started after it has
\* written its results since.
NewCycle(wrote) == [wrote |-> wrote, overtaken |-> FALSE]

\* No cycle has ended yet; one cycle is in flight, started by the mount.
\* failed and stale tell what the step just taken did: it ended a cycle by
\* the failure of its fetch, it wrote the results of an overtaken cycle.
\* overlap: whether the run explores overlapping fetches (over few snapshots)
\* or one fetch at a time (over all snapshots).
NoFailure == [ran |-> FALSE, wrote |-> FALSE]
CyclesAtMount(overlap) ==
    [polls |-> <<NewCycle(FALSE)>>, failed |-> NoFailure, stale |-> FALSE,
     overlap |-> overlap]

\* The fetches of one kind that may be in flight, and the telemetry responses.
InFlightLimit == IF mxCycle.overlap THEN MaxInFlight ELSE 1
Feed == IF mxCycle.overlap THEN MxFewSnapshots ELSE MxSnapshots

\* A sequence without its i-th element
RemoveAt(seq, i) == SubSeq(seq, 1, i - 1) \o SubSeq(seq, i + 1, Len(seq))

\* A cycle starts.
StartCycle(wrote) ==
    mxCycle' = [mxCycle EXCEPT !.polls = Append(@, NewCycle(wrote)),
                               !.failed = NoFailure, !.stale = FALSE]

\* A step that neither starts nor ends a cycle.
SameCycles == mxCycle' = [mxCycle EXCEPT !.failed = NoFailure, !.stale = FALSE]

\* Cycle i ends by writing its results: the cycles started before it are overtaken.
CompleteCycle(i) ==
    mxCycle' = [mxCycle EXCEPT
                  !.polls = RemoveAt([k \in DOMAIN @ |->
                                         IF k < i THEN [@[k] EXCEPT !.overtaken = TRUE]
                                         ELSE @[k]], i),
                  !.stale = mxCycle.polls[i].overtaken,
                  !.failed = NoFailure]

\* Cycle i ends by the failure of its fetch; wrote: the failure handler changed
\* what is exposed.
FailCycle(i, wrote) ==
    mxCycle' = [mxCycle EXCEPT
                  !.polls = RemoveAt(@, i),
                  !.stale = FALSE,
                  !.failed = [ran |-> TRUE, wrote |-> mxCycle.polls[i].wrote \/ wrote]]

\* App.tsx 199-205, 212-247: the route-based SectorMatrix after its mount
MountRoute ==
    /\ mxView = "route"
    /\ mxAircraftData = <<>> /\ mxSectors = <<>> /\ mxFixCoords = buildFixMap(<<>>)
    /\ mxWindowHours = 5
    /\ mxSlots = generateSlots_App(roundToNext15_App(0), 5)
    /\ \E r \in {aggregate_App(<<>>, <<>>, mxSlots, mxFixCoords, 0, 5)} :
          mxCounts = r.counts /\ mxPresent = r.present
    /\ mxPending = [NoFetch EXCEPT !.sectors = 1, !.routes = 1, !.telemetry = 1]
    /\ mxPass = [ran |-> TRUE, now |-> 0, data |-> <<>>, by |-> "mount",
                 mid |-> Rendered(mxSlots, mxCounts)]
    /\ mxCycle \in {CyclesAtMount(o) : o \in BOOLEAN}

\* TJSJArrivals.tsx 274-278, 297-317: the dead-reckoning SectorMatrix after its mount
MountDead ==
    /\ mxView = "dead"
    /\ mxAircraftData = <<>> /\ mxSectors = <<>> /\ mxFixCoords = <<>>
    /\ mxWindowHours = 5
    /\ mxSlots = generateSlots_DR(0, 5)
    /\ mxCounts = aggregate_DR(<<>>, <<>>, mxSlots, 0)
    /\ mxPresent = <<>>
    /\ mxPending = [NoFetch EXCEPT !.sectors = 1, !.telemetry = 1]
    /\ mxPass = [ran |-> TRUE, now |-> 0, data |-> <<>>, by |-> "mount",
                 mid |-> Rendered(mxSlots, mxCounts)]
    /\ mxCycle \in {CyclesAtMount(o) : o \in BOOLEAN}

\* TJSJArrivals.tsx 47-51, 59-110: the gate matrix after its mount, fetchData started
MountGate ==
    /\ mxView = "gate"
    /\ mxAircraftData = <<>> /\ mxSectors = <<>> /\ mxFixCoords = <<>>
    /\ mxWindowHours = 5
    /\ mxSlots = <<>>
    /\ mxCounts = <<>>
    /\ mxPresent = <<>>
    /\ mxPending = [NoFetch EXCEPT !.passes = <<startPass_TJSJ(0, 5)>>]
    /\ mxPass = [ran |-> FALSE, now |-> 0, data |-> <<>>, by |-> "mount",
                 mid |-> Rendered(<<>>, <<>>)]
    /\ mxCycle \in {CyclesAtMount(o) : o \in BOOLEAN}

MxInit ==
    /\ mxClock = 0
    /\ (MountRoute \/ MountDead \/ MountGate)
    /\ TgIdle /\ RsIdle /\ RtIdle /\ ClIdle /\ LmIdle

\* Time passes.
Tick ==
    /\ mxView # "idle"
    /\ mxClock < MaxTicks * TickMs
    /\ mxClock' = mxClock + TickMs
    /\ SameCycles
    /\ UNCHANGED <<mxView, mxAircraftData, mxSectors, mxFixCoords, mxSlots, mxWindowHours,
                   mxCounts, mxPresent, mxPending, mxPass, mxOthers>>

\* App.tsx 249-312: the aggregation effect of the route-based SectorMatrix
\* runs on the new state.  The effect runs after the render of that state has
\* been committed: mid is what that render shows, the new slots with the
\* matrix of the pass before.
Effect_App(aircraftData, features, slots, fixCoords, windowHours, by) ==
    /\ \E r \in {aggregate_App(aircraftData, features, slots, fixCoords, mxClock,
                                windowHours)} :
          mxCounts' = r.counts /\ mxPresent' = r.present
    /\ mxPass' = [ran |-> TRUE, now |-> mxClock, data |-> aircraftData, by |-> by,
                  mid |-> Rendered(slots, mxCounts)]

\* App.tsx 232-241: the 15 s timer fires, fetchData
Poll_App ==
    /\ mxView = "route"
    /\ mxPending.telemetry < InFlightLimit
    /\ mxPending' = [mxPending EXCEPT !.telemetry = @ + 1]
    /\ StartCycle(FALSE)
    /\ UNCHANGED <<mxView, mxClock, mxAircraftData, mxSectors, mxFixCoords, mxSlots,
                   mxWindowHours, mxCounts, mxPresent, mxPass, mxOthers>>

\* App.tsx 234-236: setAircraftData(data.pilots || [])
Telemetry_App ==
    /\ mxView = "route"
    /\ mxPending.telemetry > 0
    /\ \E pilots \in Feed :
          /\ mxAircraftData' = pilots
          /\ Effect_App(pilots, mxSectors, mxSlots, mxFixCoords, mxWindowHours, "telemetry")
    /\ mxPending' = [mxPending EXCEPT !.telemetry = @ - 1]
    /\ \E i \in DOMAIN mxCycle.polls : CompleteCycle(i)
    /\ UNCHANGED <<mxView, mxClock, mxSectors, mxFixCoords, mxSlots, mxWindowHours,
                   mxOthers>>

\* App.tsx 234-236: the fetch is rejected; the promise chain has no catch and
\* nothing is set
TelemetryFailed_App ==
    /\ mxView = "route"
    /\ mxPending.telemetry > 0
    /\ mxPending' = [mxPending EXCEPT !.telemetry = @ - 1]
    /\ \E i \in DOMAIN mxCycle.polls : FailCycle(i, FALSE)
    /\ UNCHANGED <<mxView, mxClock, mxAircraftData, mxSectors, mxFixCoords, mxSlots,
                   mxWindowHours, mxCounts, mxPresent, mxPass, mxOthers>>

\* App.tsx 212-214: setSectors
SectorsLoaded_App ==
    /\ mxView = "route"
    /\ mxPending.sectors > 0
    /\ mxSectors' = SectorFeatures
    /\ Effect_App(mxAircraftData, SectorFeatures, mxSlots, mxFixCoords, mxWindowHours,
                  "sectors")
    /\ mxPending' = [mxPending EXCEPT !.sectors = @ - 1]
    /\ SameCycles
    /\ UNCHANGED <<mxView, mxClock, mxAircraftData, mxFixCoords, mxSlots, mxWindowHours,
                   mxOthers>>

\* App.tsx 216-230: setFixCoords(fixMap)
RoutesLoaded_App ==
    /\ mxView = "route"
    /\ mxPending.routes > 0
    /\ mxFixCoords' = buildFixMap(TableFull)
    /\ Effect_App(mxAircraftData, mxSectors, mxSlots, buildFixMap(TableFull), mxWindowHours,
                  "routes")
    /\ mxPending' = [mxPending EXCEPT !.routes = @ - 1]
    /\ SameCycles
    /\ UNCHANGED <<mxView, mxClock, mxAircraftData, mxSectors, mxSlots, mxWindowHours,
                   mxOthers>>

\* App.tsx 354, 243-247: setWindowHours, then the slot effect and the aggregation
SetWindowHours_App ==
    /\ mxView = "route"
    /\ \E h \in 1..MaxWindow :
          /\ h # mxWindowHours
          /\ mxWindowHours' = h
          /\ mxSlots' = generateSlots_App(roundToNext15_App(mxClock), h)
          /\ Effect_App(mxAircraftData, mxSectors,
                        generateSlots_App(roundToNext15_App(mxClock), h), mxFixCoords, h,
                        "window")
    /\ SameCycles
    /\ UNCHANGED <<mxView, mxClock, mxAircraftData, mxSectors, mxFixCoords, mxPending,
                   mxOthers>>

\* TJSJArrivals.tsx 319-355: the aggregation effect of the dead-reckoning
\* SectorMatrix runs on the new state
Effect_DR(aircraftData, features, slots, by) ==
    /\ mxCounts' = aggregate_DR(aircraftData, features, slots, mxClock)
    /\ mxPass' = [ran |-> TRUE, now |-> mxClock, data |-> aircraftData, by |-> by,
                  mid |-> Rendered(slots, mxCounts)]

\* TJSJArrivals.tsx 311-314: the 15 s timer fires, fetchData and setSlots
Poll_DR ==
    /\ mxView = "dead"
    /\ mxPending.sectors < InFlightLimit /\ mxPending.telemetry < InFlightLimit
    /\ mxPending' = [mxPending EXCEPT !.sectors = @ + 1, !.telemetry = @ + 1]
    /\ mxSlots' = generateSlots_DR(mxClock, mxWindowHours)
    /\ Effect_DR(mxAircraftData, mxSectors, generateSlots_DR(mxClock, mxWindowHours),
                 "timer")
    /\ StartCycle(Exposed(mxSlots', mxCounts', mxPresent)
                      # Exposed(mxSlots, mxCounts, mxPresent))
    /\ UNCHANGED <<mxView, mxClock, mxAircraftData, mxSectors, mxFixCoords, mxWindowHours,
                   mxPresent, mxOthers>>

\* TJSJArrivals.tsx 303-305: setAircraftData(data.pilots || [])
Telemetry_DR ==
    /\ mxView = "dead"
    /\ mxPending.telemetry > 0
    /\ \E pilots \in Feed :
          /\ mxAircraftData' = pilots
          /\ Effect_DR(pilots, mxSectors, mxSlots, "telemetry")
    /\ mxPending' = [mxPending EXCEPT !.telemetry = @ - 1]
    /\ \E i \in DOMAIN mxCycle.polls : CompleteCycle(i)
    /\ UNCHANGED <<mxView, mxClock, mxSectors, mxFixCoords, mxSlots, mxWindowHours,
                   mxPresent, mxOthers>>

\* TJSJArrivals.tsx 303-305: the fetch is rejected; the promise chain has no
\* catch and nothing is set
TelemetryFailed_DR ==
    /\ mxView = "dead"
    /\ mxPending.telemetry > 0
    /\ mxPending' = [mxPending EXCEPT !.telemetry = @ - 1]
    /\ \E i \in DOMAIN mxCycle.polls : FailCycle(i, FALSE)
    /\ UNCHANGED <<mxView, mxClock, mxAircraftData, mxSectors, mxFixCoords, mxSlots,
                   mxWindowHours, mxCounts, mxPresent, mxPass, mxOthers>>

\* TJSJArrivals.tsx 299-301: setSectors(data)
SectorsLoaded_DR ==
    /\ mxView = "dead"
    /\ mxPending.sectors > 0
    /\ mxSectors' = SectorFeatures
    /\ Effect_DR(mxAircraftData, SectorFeatures, mxSlots, "sectors")
    /\ mxPending' = [mxPending EXCEPT !.sectors = @ - 1]
    /\ SameCycles
    /\ UNCHANGED <<mxView, mxClock, mxAircraftData, mxFixCoords, mxSlots, mxWindowHours,
                   mxPresent, mxOthers>>

\* TJSJArrivals.tsx 397, 297-317: setWindowHours, then the polling effect again
SetWindowHours_DR ==
    /\ mxView = "dead"
    /\ mxPending.sectors < InFlightLimit /\ mxPending.telemetry < InFlightLimit
    /\ \E h \in 1..MaxWindow :
          /\ h # mxWindowHours
          /\ mxWindowHours' = h
          /\ mxSlots' = generateSlots_DR(mxClock, h)
          /\ Effect_DR(mxAircraftData, mxSectors, generateSlots_DR(mxClock, h), "window")
    /\ mxPending' = [mxPending EXCEPT !.sectors = @ + 1, !.telemetry = @ + 1]
    /\ StartCycle(FALSE)
    /\ UNCHANGED <<mxView, mxClock, mxAircraftData, mxSectors, mxFixCoords, mxPresent,
                   mxOthers>>

\* TJSJArrivals.tsx 107: the 15 s timer fires, fetchData starts a pass
Poll_TJSJ ==
    /\ mxView = "gate"
    /\ Len(mxPending.passes) < InFlightLimit
    /\ mxPending' = [mxPending EXCEPT
                        !.passes = Append(@, startPass_TJSJ(mxClock, mxWindowHours))]
    /\ StartCycle(FALSE)
    /\ UNCHANGED <<mxView, mxClock, mxAircraftData, mxSectors, mxFixCoords, mxSlots,
                   mxWindowHours, mxCounts, mxPresent, mxPass, mxOthers>>

\* TJSJArrivals.tsx 73-97: the response of a pass arrives; setSlots, setCounts.
\* The two are set after an await: the build decides whether they are
\* rendered together or setSlots is rendered first, with the counts of the
\* pass before (mid).
FetchDone_TJSJ ==
    /\ mxView = "gate"
    /\ \E i \in DOMAIN mxPending.passes, pilots \in Feed :
          /\ mxSlots' = mxPending.passes[i].slotSet
          /\ \E r \in {aggregate_TJSJ(pilots, mxPending.passes[i].slotSet, mxClock)} :
                /\ mxCounts' = r
                /\ \E mid \in {Rendered(mxPending.passes[i].slotSet, mxCounts),
                                Rendered(mxPending.passes[i].slotSet, r)} :
                      mxPass' = [ran |-> TRUE, now |-> mxClock, data |-> pilots,
                                 by |-> "telemetry", mid |-> mid]
          /\ mxPending' = [mxPending EXCEPT !.passes = RemoveAt(@, i)]
          /\ CompleteCycle(i)
    /\ UNCHANGED <<mxView, mxClock, mxAircraftData, mxSectors, mxFixCoords, mxWindowHours,
                   mxPresent, mxOthers>>

\* TJSJArrivals.tsx 98-100: the fetch of a pass fails; console.error
FetchFailed_TJSJ ==
    /\ mxView = "gate"
    /\ \E i \in DOMAIN mxPending.passes :
          /\ mxPending' = [mxPending EXCEPT !.passes = RemoveAt(@, i)]
          /\ FailCycle(i, FALSE)
    /\ UNCHANGED <<mxView, mxClock, mxAircraftData, mxSectors, mxFixCoords, mxSlots,
                   mxWindowHours, mxCounts, mxPresent, mxPass, mxOthers>>

\* TJSJArrivals.tsx 135, 59-110: setWindowHours, then the effect again: fetchData
SetWindowHours_TJSJ ==
    /\ mxView = "gate"
    /\ Len(mxPending.passes) < InFlightLimit
    /\ \E h \in 1..MaxWindow :
          /\ h # mxWindowHours
          /\ mxWindowHours' = h
          /\ mxPending' = [mxPending EXCEPT !.passes = Append(@, startPass_TJSJ(mxClock, h))]
    /\ StartCycle(FALSE)
    /\ UNCHANGED <<mxView, mxClock, mxAircraftData, mxSectors, mxFixCoords, mxSlots,
                   mxCounts, mxPresent, mxPass, mxOthers>>

MxNext ==
    \/ Tick
    \/ Poll_App \/ Telemetry_App \/ TelemetryFailed_App \/ SectorsLoaded_App \/ RoutesLoaded_App \/ SetWindowHours_App
    \/ Poll_DR \/ Telemetry_DR \/ TelemetryFailed_DR \/ SectorsLoaded_DR \/ SetWindowHours_DR
    \/ Poll_TJSJ \/ FetchDone_TJSJ \/ FetchFailed_TJSJ \/ SetWindowHours_TJSJ

SpecMatrix == MxInit /\ [][MxNext]_vars

\* An aggregation pass has run in the mounted matrix.
MxRan == mxView \in {"route", "dead", "gate"} /\ mxPass.ran

\* What the last pass yields for other pilots, everything else as in that pass.
MxAggregateOf(pilots) ==
    IF mxView = "route"
    THEN aggregate_App(pilots, mxSectors, mxSlots, mxFixCoords, mxPass.now, mxWindowHours)
    ELSE IF mxView = "dead"
    THEN [counts |-> aggregate_DR(pilots, mxSectors, mxSlots, mxPass.now), present |-> <<>>]
    ELSE [counts |-> aggregate_TJSJ(pilots, mxSlots, mxPass.now), present |-> <<>>]

\* The rows of the mounted matrix, and a cell of a matrix (0 in a row it lacks).
MxKeys == IF mxView = "gate" THEN {GATES[i] : i \in DOMAIN GATES} \cup {UNKNOWN} ELSE ALL_SECTORS
MxCell(counts, key, idx) == IF key \in DOMAIN counts THEN counts[key][idx] ELSE 0

\* What pilot i of the last pass added to a cell: the count, less the count of
\* the same pass without that pilot (rest).
MxAdded(rest, key, idx) == MxCell(mxCounts, key, idx) - MxCell(rest.counts, key, idx)

\* Pilot i of the last pass added nothing to any cell nor to any present-now count.
MxAddedNothing(i) ==
    \E rest \in {MxAggregateOf(RemoveAt(mxPass.data, i))} :
        /\ \A key \in MxKeys, idx \in DOMAIN mxSlots : MxAdded(rest, key, idx) = 0
        /\ mxView = "route" => mxPresent = rest.present

MxInBoundary(ac) ==
    booleanPointInPolygon(turfPoint(ac.longitude, ac.latitude), predictionBoundary)

\* The projected points of an aircraft in the last pass, one per slot
\* (undefined where the pass projects none).
MxProjection_App(routeFixes) ==
    [idx \in DOMAIN mxSlots |->
        futurePoint_App(routeFixes, mxSlots[idx], mxPass.now, mxWindowHours)]

MxProjection(ac) ==
    IF mxView = "route"
    THEN IF preFilter_App(ac) THEN MxProjection_App(getRemainingRoute(ac, mxFixCoords))
         ELSE [idx \in DOMAIN mxSlots |-> undefined]
    ELSE IF mxView = "dead"
    THEN [idx \in DOMAIN mxSlots |->
            IF preFilter_DR(ac) /\ mxSlots[idx] - mxPass.now >= 0
            THEN futurePoint_DR(ac, mxSlots[idx], mxPass.now)
            ELSE undefined]
    ELSE [idx \in DOMAIN mxSlots |-> undefined]

\* Feature f names a declared sector of the group and its polygon holds pt.
MxHolds(f, group, pt) ==
    /\ mxSectors[f].properties.sector \in group
    /\ booleanPointInPolygon(pt, mxSectors[f].geometry)

\* Feature f declares a maximum altitude below the aircraft's altitude.
MxAbove(ac, f) ==
    /\ "max_alt" \in DOMAIN mxSectors[f].properties
    /\ ac.altitude > mxSectors[f].properties.max_alt

\* C7: an aircraft below 100 ft, or without flight plan, or without route text,
\* or outside the prediction boundary, adds nothing to any cell of any matrix
\* (sector counts, gate counts, present-now counts).
C7_ExcludedAddNothing ==
    MxRan =>
        \A i \in DOMAIN mxPass.data :
            (\/ mxPass.data[i].altitude < 100
             \/ ~ mxPass.data[i].flight_plan.present
             \/ mxPass.data[i].flight_plan.route = <<>>
             \/ ~ MxInBoundary(mxPass.data[i]))
                => MxAddedNothing(i)

\* C7 for the route-based sector matrix alone.
C7_ExcludedAddNothing_App ==
    mxView = "route" => C7_ExcludedAddNothing

\* C7 as the dead-reckoning sector matrix does it: only the altitude and the
\* boundary exclude.
C7_ExcludedAddNothing_DR ==
    (mxView = "dead" /\ MxRan) =>
        \A i \in DOMAIN mxPass.data :
            (mxPass.data[i].altitude < 100 \/ ~ MxInBoundary(mxPass.data[i]))
                => MxAddedNothing(i)

\* C7 as the gate matrix does it: the altitude excludes, and so does a missing
\* flight plan (no arrival to compare with TJSJ).
C7_ExcludedAddNothing_TJSJ ==
    (mxView = "gate" /\ MxRan) =>
        \A i \in DOMAIN mxPass.data :
            (mxPass.data[i].altitude < 100 \/ ~ mxPass.data[i].flight_plan.present)
                => MxAddedNothing(i)

\* C8: for every slot, an aircraft at or below 10,000 ft whose projected point
\* lies inside both a center sector polygon and an approach sector polygon
\* increments the approach sector's count and not the center sector's.
C8_ApproachNotCenter ==
    MxRan =>
        \A i \in DOMAIN mxPass.data :
            mxPass.data[i].altitude <= 10000 =>
                \E rest \in {MxAggregateOf(RemoveAt(mxPass.data, i))},
                   points \in {MxProjection(mxPass.data[i])} :
                    \A idx \in DOMAIN mxSlots, fc \in DOMAIN mxSectors, fa \in DOMAIN mxSectors :
                        (/\ points[idx] # undefined
                         /\ MxHolds(fc, CENTER_SECTORS, points[idx])
                         /\ MxHolds(fa, APPROACH_SECTORS, points[idx]))
                            => /\ MxAdded(rest, mxSectors[fa].properties.sector, idx) >= 1
                               /\ MxAdded(rest, mxSectors[fc].properties.sector, idx) = 0

\* C8, the center half, for the route-based sector matrix alone.
C8_CenterSuppressed_App ==
    (mxView = "route" /\ MxRan) =>
        \A i \in DOMAIN mxPass.data :
            mxPass.data[i].altitude <= 10000 =>
                \E rest \in {MxAggregateOf(RemoveAt(mxPass.data, i))},
                   points \in {MxProjection(mxPass.data[i])} :
                    \A idx \in DOMAIN mxSlots, fc \in DOMAIN mxSectors, fa \in DOMAIN mxSectors :
                        (/\ points[idx] # undefined
                         /\ MxHolds(fc, CENTER_SECTORS, points[idx])
                         /\ MxHolds(fa, APPROACH_SECTORS, points[idx]))
                            => MxAdded(rest, mxSectors[fc].properties.sector, idx) = 0

\* The approach-precedence rule of the route-based matrix applies to feature f.
MxYieldsToApproach(ac, f, pt) ==
    /\ mxView = "route"
    /\ mxSectors[f].properties.sector \in CENTER_SECTORS
    /\ ac.altitude <= 10000
    /\ \E fa \in DOMAIN mxSectors : MxHolds(fa, APPROACH_SECTORS, pt)

\* C9: for every slot and every declared sector whose polygon holds the
\* projected point, an aircraft above the sector's declared maximum altitude
\* increments the sector's count when its arrival is in the exempt list and
\* does not when it is not.
C9_ExemptionOverridesAltitude ==
    MxRan =>
        \A i \in DOMAIN mxPass.data :
            \E rest \in {MxAggregateOf(RemoveAt(mxPass.data, i))},
               points \in {MxProjection(mxPass.data[i])} :
                \A idx \in DOMAIN mxSlots, f \in DOMAIN mxSectors :
                    (/\ points[idx] # undefined
                     /\ MxHolds(f, ALL_SECTORS, points[idx])
                     /\ MxAbove(mxPass.data[i], f))
                        => IF mxPass.data[i].flight_plan.arrival \in zsu_airports
                           THEN MxAdded(rest, mxSectors[f].properties.sector, idx) >= 1
                           ELSE MxAdded(rest, mxSectors[f].properties.sector, idx) = 0

\* C9 as amended: the same, except that in the route-based matrix an exempt
\* aircraft at or below 10,000 ft does not increment a center sector while its
\* projected point also lies in an approach sector polygon.
C9_ExemptionUnlessApproach ==
    MxRan =>
        \A i \in DOMAIN mxPass.data :
            \E rest \in {MxAggregateOf(RemoveAt(mxPass.data, i))},
               points \in {MxProjection(mxPass.data[i])} :
                \A idx \in DOMAIN mxSlots, f \in DOMAIN mxSectors :
                    (/\ points[idx] # undefined
                     /\ MxHolds(f, ALL_SECTORS, points[idx])
                     /\ MxAbove(mxPass.data[i], f))
                        => IF /\ mxPass.data[i].flight_plan.arrival \in zsu_airports
                              /\ ~ MxYieldsToApproach(mxPass.data[i], f, points[idx])
                           THEN MxAdded(rest, mxSectors[f].properties.sector, idx) >= 1
                           ELSE MxAdded(rest, mxSectors[f].properties.sector, idx) = 0

\* Pilot i, above the declared maximum of feature f that holds its projected
\* point of slot idx, added n to the sector's count.
MxAboveAdded(i, idx, f, exempt, n) ==
    \E rest \in {MxAggregateOf(RemoveAt(mxPass.data, i))},
       points \in {MxProjection(mxPass.data[i])} :
        /\ points[idx] # undefined
        /\ MxHolds(f, ALL_SECTORS, points[idx])
        /\ MxAbove(mxPass.data[i], f)
        /\ (mxPass.data[i].flight_plan.arrival \in zsu_airports) = exempt
        /\ MxAdded(rest, mxSectors[f].properties.sector, idx) = n

\* C9 witness: in one pass of the route-based matrix an exempt aircraft above
\* an approach sector's maximum is counted there and yields in a center sector
\* whose maximum it also exceeds, and a non-exempt aircraft above a sector's
\* maximum is not counted.
C9_Witness ==
    /\ mxView = "route" /\ MxRan
    /\ \E i \in DOMAIN mxPass.data, idx \in DOMAIN mxSlots :
          \E fa \in DOMAIN mxSectors, fc \in DOMAIN mxSectors :
              /\ mxSectors[fa].properties.sector \in APPROACH_SECTORS
              /\ mxSectors[fc].properties.sector \in CENTER_SECTORS
              /\ MxAboveAdded(i, idx, fa, TRUE, 1)
              /\ MxAboveAdded(i, idx, fc, TRUE, 0)
    /\ \E i \in DOMAIN mxPass.data, idx \in DOMAIN mxSlots, f \in DOMAIN mxSectors :
          MxAboveAdded(i, idx, f, FALSE, 0)

\* C10: in the route-based sector matrix every aircraft that passes the
\* pre-filter adds exactly 1 to the present-now count of each declared sector
\* whose polygon holds its current position, whatever its route projection yields.
C10_PresentNow ==
    (mxView = "route" /\ MxRan) =>
        \A i \in DOMAIN mxPass.data :
            preFilter_App(mxPass.data[i]) =>
                \E rest \in {MxAggregateOf(RemoveAt(mxPass.data, i))} :
                    \A f \in DOMAIN mxSectors :
                        MxHolds(f, ALL_SECTORS, turfPoint(mxPass.data[i].longitude,
                                                          mxPass.data[i].latitude))
                            => mxPresent[mxSectors[f].properties.sector]
                                 - rest.present[mxSectors[f].properties.sector] = 1

\* C10 as the code does it: only for an aircraft whose remaining route is not empty.
C10_PresentNowWithRoute ==
    (mxView = "route" /\ MxRan) =>
        \A i \in DOMAIN mxPass.data :
            (/\ preFilter_App(mxPass.data[i])
             /\ Len(getRemainingRoute(mxPass.data[i], mxFixCoords)) > 0) =>
                \E rest \in {MxAggregateOf(RemoveAt(mxPass.data, i))} :
                    \A f \in DOMAIN mxSectors :
                        MxHolds(f, ALL_SECTORS, turfPoint(mxPass.data[i].longitude,
                                                          mxPass.data[i].latitude))
                            => mxPresent[mxSectors[f].properties.sector]
                                 - rest.present[mxSectors[f].properties.sector] = 1

\* C10, the other half of the code's rule: a retained aircraft without a
\* remaining route adds nothing to any present-now count.
C10_NoPresentWithoutRoute ==
    (mxView = "route" /\ MxRan) =>
        \A i \in DOMAIN mxPass.data :
            (/\ preFilter_App(mxPass.data[i])
             /\ Len(getRemainingRoute(mxPass.data[i], mxFixCoords)) = 0) => MxAddedNothing(i)

(***************************************************************************)
(* The shape of the matrix (C11)                                           *)
(***************************************************************************)
\* The pass of the mounted matrix retains the aircraft (its pre-filter).
MxRetained(ac) ==
    IF mxView = "route" THEN preFilter_App(ac)
    ELSE IF mxView = "dead" THEN preFilter_DR(ac)
    ELSE ac.flight_plan.present /\ ac.flight_plan.arrival = aTJSJ /\ ~ (ac.altitude < 100)

\* The declared regions of the mounted matrix.
MxDeclared == IF mxView = "gate" THEN {GATES[i] : i \in DOMAIN GATES} ELSE ALL_SECTORS

\* C11: the matrix of every aggregation pass has a row for every declared
\* region (nine sectors, five gates), every row holds one count per slot of
\* the pass, and every count is zero when the pass retains no aircraft.
C11_RowsForEveryRegion ==
    MxRan =>
        /\ \A key \in MxDeclared :
              key \in DOMAIN mxCounts /\ Len(mxCounts[key]) = Len(mxSlots)
        /\ Cardinality(MxDeclared) = (IF mxView = "gate" THEN 5 ELSE 9)
        /\ (\A i \in DOMAIN mxPass.data : ~ MxRetained(mxPass.data[i]))
              => \A key \in DOMAIN mxCounts, idx \in DOMAIN mxSlots : mxCounts[key][idx] = 0

\* C11 witness: a pass over a non-empty snapshot that retains no aircraft
\* produced rows of zeros for a non-empty slot sequence.
C11_Witness ==
    /\ MxRan
    /\ mxPass.data # <<>> /\ mxSlots # <<>>
    /\ \A i \in DOMAIN mxPass.data : ~ MxRetained(mxPass.data[i])
    /\ \A key \in MxDeclared : key \in DOMAIN mxCounts /\ Len(mxCounts[key]) = Len(mxSlots)

(***************************************************************************)
(* Threshold classification (C12): getCellColor of the three matrices      *)
(***************************************************************************)
MaxCount == 8       \* counts range over 0..MaxCount
MaxLimit == 8       \* configured limits range over 0..MaxLimit

\* The classes of a cell: exceeded, near-limit, ok
RED == "bg-red-600 text-white"
YELLOW == "bg-yellow-500 text-black"
GREEN == "bg-green-600 text-white"

\* App.tsx 113-117: val >= limit * 0.75 is 4 * val >= 3 * limit
getCellColor_App(val, limit) ==
    IF val > limit THEN RED
    ELSE IF 4 * val >= 3 * limit THEN YELLOW
    ELSE GREEN

\* TJSJArrivals.tsx 113-117
getCellColor_TJSJ(val, limit) ==
    IF val > limit THEN RED
    ELSE IF 4 * val >= 3 * limit THEN YELLOW
    ELSE GREEN

\* TJSJArrivals.tsx 244-254
SECTOR_LIMITS ==
    ("Sector 1" :> 10) @@ ("Sector 2" :> 20) @@ ("Sector 3" :> 15) @@ ("Sector 4" :> 30)
    @@ ("Sector 5" :> 10) @@ ("Sector 6" :> 25) @@ ("Sector 7" :> 15) @@ ("Sector 8" :> 30)
    @@ ("Sector 9" :> 5)

\* TJSJArrivals.tsx 267: SECTOR_LIMITS[sector] || 10
max_DR(sector) ==
    IF sector \in DOMAIN SECTOR_LIMITS /\ SECTOR_LIMITS[sector] # 0
    THEN SECTOR_LIMITS[sector]
    ELSE 10

\* TJSJArrivals.tsx 266-271: val >= max * 0.7 is 10 * val >= 7 * max
getCellColor_DR(sector, val) ==
    IF val > max_DR(sector) THEN RED
    ELSE IF 10 * val >= 7 * max_DR(sector) THEN YELLOW
    ELSE GREEN

(***************************************************************************)
(* SpecColor: a cell of one of the three tables is rendered.               *)
(***************************************************************************)
ClInit ==
    /\ clVal \in 0..MaxCount
    /\ clLimit \in 0..MaxLimit
    /\ clSector \in ALL_SECTORS
    /\ clOut = [kind |-> "none"]
    /\ TgIdle /\ RsIdle /\ RtIdle /\ MxIdle /\ LmIdle

\* App.tsx 334: getCellColor(val, limits[sector])
Render_App ==
    /\ clOut.kind = "none"
    /\ clOut' = [kind |-> "route", limit |-> clLimit,
                 color |-> getCellColor_App(clVal, clLimit)]
    /\ UNCHANGED <<clVal, clLimit, clSector, tgVars, rsVars, rtVars, mxVars, lmVars>>

\* TJSJArrivals.tsx 168: getCellColor(counts[g]?.[i] || 0, limits[g])
Render_TJSJ ==
    /\ clOut.kind = "none"
    /\ clOut' = [kind |-> "gate", limit |-> clLimit,
                 color |-> getCellColor_TJSJ(clVal, clLimit)]
    /\ UNCHANGED <<clVal, clLimit, clSector, tgVars, rsVars, rtVars, mxVars, lmVars>>

\* TJSJArrivals.tsx 377: getCellColor(sector, val); the limit of the sector is
\* the one SECTOR_LIMITS gives
Render_DR ==
    /\ clOut.kind = "none"
    /\ clOut' = [kind |-> "dead", limit |-> max_DR(clSector),
                 color |-> getCellColor_DR(clSector, clVal)]
    /\ UNCHANGED <<clVal, clLimit, clSector, tgVars, rsVars, rtVars, mxVars, lmVars>>

ClNext == Render_App \/ Render_TJSJ \/ Render_DR

SpecColor == ClInit /\ [][ClNext]_vars

\* The bands of the contract: exceeded above the limit, else near-limit from
\* three quarters of the limit, else ok.
Band(count, limit) ==
    IF count > limit THEN RED
    ELSE IF 4 * count >= 3 * limit THEN YELLOW
    ELSE GREEN

\* C12: in the sector matrices and in the gate matrix alike, the class of a
\* cell is 'exceeded' exactly when count > limit, otherwise 'near-limit'
\* exactly when count >= 0.75 x limit, otherwise 'ok'.
C12_SameBands ==
    clOut.kind \in {"route", "gate", "dead"} => clOut.color = Band(clVal, clOut.limit)

\* C12 for the route-based sector matrix and the gate matrix.
C12_SameBands_AppTJSJ ==
    clOut.kind \in {"route", "gate"} => clOut.color = Band(clVal, clOut.limit)

\* C12 as the dead-reckoning sector matrix does it: near-limit from seven
\* tenths of the limit.
C12_SevenTenths_DR ==
    clOut.kind = "dead" =>
        clOut.color = (IF clVal > clOut.limit THEN RED
                       ELSE IF 10 * clVal >= 7 * clOut.limit THEN YELLOW
                       ELSE GREEN)

(***************************************************************************)
(* The cell of a gate arrival (C13)                                        *)
(***************************************************************************)
\* The estimated arrival time of the claim: the time of the pass plus the
\* great-circle distance to TJSJ over the groundspeed (450 kt when unreported).
MxEta(p) ==
    mxPass.now + ((GateDistanceTable[<<p.latitude, p.longitude>>] * 3600)
                     \div (IF p.groundspeed = 0 THEN 450 ELSE p.groundspeed)) * 10

\* The slots (columns) whose half-open quarter hour holds t.
MxColumnsOf(t) == {i \in DOMAIN mxSlots : mxSlots[i] <= t /\ t < mxSlots[i] + QuarterMs}

\* Gate k is named in the upper-cased route text.
MxNames(route, k) == \E t \in DOMAIN route : includes(toUpperCase(route[t]), GATES[k])

\* The row of an arrival: the first gate, in declared order, that its route
\* text names, or UNKNOWN.
MxRowOf(route) ==
    IF \E k \in DOMAIN GATES : MxNames(route, k)
    THEN GATES[CHOOSE k \in DOMAIN GATES :
                  MxNames(route, k) /\ \A j \in 1..(k - 1) : ~ MxNames(route, j)]
    ELSE UNKNOWN

\* Pilot i of the last pass added 1 to the cells in only and 0 to every other cell.
MxAddedOnly(i, only) ==
    \E rest \in {MxAggregateOf(RemoveAt(mxPass.data, i))} :
        \A key \in MxKeys, idx \in DOMAIN mxSlots :
            MxAdded(rest, key, idx) = (IF <<key, idx>> \in only THEN 1 ELSE 0)

\* C13: in the gate matrix a counted arrival whose estimated arrival time
\* falls in slot i adds exactly 1 to column i of the row of the first gate, in
\* declared order, named in its upper-cased route text (UNKNOWN when none is),
\* and changes no other cell; one whose time falls in no slot changes no cell.
C13_OneCellPerArrival ==
    (mxView = "gate" /\ MxRan) =>
        \A i \in DOMAIN mxPass.data :
            MxRetained(mxPass.data[i]) =>
                /\ Cardinality(MxColumnsOf(MxEta(mxPass.data[i]))) <= 1
                /\ MxAddedOnly(i, {MxRowOf(mxPass.data[i].flight_plan.route)}
                                      \X MxColumnsOf(MxEta(mxPass.data[i])))

\* C13 witness: one pass counted two arrivals in the same column, one in the
\* row of SAALR (its route names BEANO first) and one in the UNKNOWN row.
C13_Witness ==
    /\ mxView = "gate" /\ MxRan
    /\ Len(mxPass.data) = 2
    /\ mxPass.data[1] = MxTwoGates
    /\ MxColumnsOf(MxEta(mxPass.data[1])) # {}
    /\ \A idx \in MxColumnsOf(MxEta(mxPass.data[1])) :
          mxCounts[gSAALR][idx] = 1 /\ mxCounts[UNKNOWN][idx] = 1 /\ mxCounts[gBEANO][idx] = 0

\* C13 witness of the other case: a counted arrival whose estimated arrival
\* time falls in no slot of the pass.
C13_WitnessNoSlot ==
    /\ mxView = "gate" /\ MxRan
    /\ \E i \in DOMAIN mxPass.data :
          MxRetained(mxPass.data[i]) /\ MxColumnsOf(MxEta(mxPass.data[i])) = {}

(***************************************************************************)
(* Aircraft without groundspeed (C14)                                      *)
(***************************************************************************)
\* C14: an aircraft whose groundspeed is <= 0 is not predicted: it adds
\* nothing to any per-slot count of the matrix (the other aircraft of the pass
\* being counted as without it).
C14_NoPredictWithoutSpeed ==
    MxRan =>
        \A i \in DOMAIN mxPass.data :
            mxPass.data[i].groundspeed <= 0 => MxAddedOnly(i, {})

\* C14 for the future positions of the route drawing: estimateFuturePositions
\* yields none for an aircraft whose groundspeed is <= 0.
C14_NoFuturePositions_VRF ==
    (rtOut.kind = "vrf" /\ rtAc.groundspeed <= 0) => rtOut.future = <<>>

\* C14 for the per-fix ETAs of the route drawing: extractRemainingRoute yields
\* no labelled fix for an aircraft whose groundspeed is <= 0.
C14_NoFixEtas_VRF ==
    (rtOut.kind = "vrf" /\ rtAc.groundspeed <= 0) => rtOut.labels = <<>>

\* ---------------------------------------------------------------------------
\* C15: a telemetry cycle whose fetch fails recomputes nothing
\* ---------------------------------------------------------------------------

\* The step just taken ended a telemetry cycle by the failure of its fetch.
MxFailed == mxView \in {"route", "dead", "gate"} /\ mxCycle.failed.ran

\* C15: when the telemetry fetch of a cycle fails, the cycle recomputes
\* nothing: the slots and the matrix exposed after the failed cycle are those
\* exposed before it started.  The timer handler of the dead-reckoning matrix
\* (TJSJArrivals.tsx 311-314) sets fresh slots whatever becomes of its fetch,
\* and the aggregation effect (319-355) recomputes the matrix from them.
C15_FailedCycleWritesNothing == MxFailed => ~ mxCycle.failed.wrote

\* The route-based matrix and the gate matrix do keep what they exposed.
C15_Retained_App == (MxFailed /\ mxView = "route") => ~ mxCycle.failed.wrote
C15_Retained_TJSJ == (MxFailed /\ mxView = "gate") => ~ mxCycle.failed.wrote

\* ---------------------------------------------------------------------------
\* C16: the limits of the gate matrix and their channel
\* ---------------------------------------------------------------------------

MaxEvents == 3      \* operator edits and updates of other operators in a run

\* TJSJArrivals.tsx 50: Object.fromEntries(GATES.map(g => [g, 4]))
limitsAtMount == [g \in {GATES[i] : i \in DOMAIN GATES} |-> 4]

\* TJSJArrivals.tsx 54: { ...limits, [gate]: value }
newLimits(limits, gate, value) ==
    [g \in DOMAIN limits \cup {gate} |-> IF g = gate THEN value ELSE limits[g]]

\* The handler of 'limits', were it to merge the update into the local map.
onLimits_Merged(limits, incomingLimits) ==
    [g \in DOMAIN limits \cup DOMAIN incomingLimits |->
        IF g \in DOMAIN incomingLimits THEN incomingLimits[g] ELSE limits[g]]

\* TJSJArrivals.tsx 60-62: the local map after socket.on('limits') has run on
\* incomingLimits
onLimits(limits, incomingLimits) == incomingLimits

\* The maps other operators publish: complete, of one gate only, and empty.
LmIncoming ==
    {[g \in {GATES[i] : i \in DOMAIN GATES} |-> 6],
     [g \in {GATES[i] : i \in DOMAIN GATES} |-> IF g = gBEANO THEN 2 ELSE 4],
     [g \in {gSAALR} |-> 7],
     [g \in {gSTT, gVEDAS} |-> 1],
     <<>>}

\* The values an operator types into the limit input of a gate.
LmValues == {0, 5}

\* TJSJArrivals.tsx 46-51, 59-62: the gate matrix after its mount, subscribed
LmInit ==
    /\ lmLimits = limitsAtMount
    /\ lmPublished = <<>>
    /\ lmInbox = <<>>
    /\ lmLast = [kind |-> "mount"]
    /\ lmEvents = 0
    /\ TgIdle /\ RsIdle /\ RtIdle /\ MxIdle /\ ClIdle

\* TJSJArrivals.tsx 53-57, 196: the operator edits the limit of a gate
HandleLimitChange ==
    /\ lmLast.kind # "idle"
    /\ lmEvents < MaxEvents
    /\ \E i \in DOMAIN GATES, value \in LmValues :
          /\ lmLimits' = newLimits(lmLimits, GATES[i], value)
          /\ lmPublished' = Append(lmPublished, newLimits(lmLimits, GATES[i], value))
          /\ lmLast' = [kind |-> "edit", gate |-> GATES[i], value |-> value,
                        prev |-> lmLimits]
    /\ lmEvents' = lmEvents + 1
    /\ UNCHANGED <<lmInbox, tgVars, rsVars, rtVars, mxVars, clVars>>

\* The server sends the map another operator published.
Broadcast ==
    /\ lmLast.kind # "idle"
    /\ lmEvents < MaxEvents
    /\ \E m \in LmIncoming : lmInbox' = Append(lmInbox, m)
    /\ lmEvents' = lmEvents + 1
    /\ UNCHANGED <<lmLimits, lmPublished, lmLast, tgVars, rsVars, rtVars, mxVars, clVars>>

\* TJSJArrivals.tsx 60-62: socket.on('limits', ...) runs on the next update
OnLimits ==
    /\ lmLast.kind # "idle"
    /\ lmInbox # <<>>
    /\ lmLimits' = onLimits(lmLimits, Head(lmInbox))
    /\ lmLast' = [kind |-> "received", incoming |-> Head(lmInbox), prev |-> lmLimits]
    /\ lmInbox' = Tail(lmInbox)
    /\ UNCHANGED <<lmPublished, lmEvents, tgVars, rsVars, rtVars, mxVars, clVars>>

LmNext == HandleLimitChange \/ Broadcast \/ OnLimits

SpecLimits == LmInit /\ [][LmNext]_vars

\* The local map is m, entry for entry.
LmIs(m) == DOMAIN lmLimits = DOMAIN m /\ \A g \in DOMAIN m : lmLimits[g] = m[g]

\* C16: limits travel and are applied as whole maps.  After an edit the local
\* map is the previous map with the edited entry set, and that complete map
\* is what was published last; after an update was received the local map is
\* exactly the received map, so that no entry of the previous local map
\* survives unless the received map has it.  The local map is thus the map of
\* the last edit or update.
C16_WholeMapLastWriterWins ==
    /\ lmLast.kind = "edit" =>
          /\ DOMAIN lmLimits = DOMAIN lmLast.prev \cup {lmLast.gate}
          /\ lmLimits[lmLast.gate] = lmLast.value
          /\ \A g \in DOMAIN lmLast.prev \ {lmLast.gate} : lmLimits[g] = lmLast.prev[g]
          /\ lmPublished # <<>> /\ LmIs(lmPublished[Len(lmPublished)])
    /\ lmLast.kind = "received" => LmIs(lmLast.incoming)
    /\ lmLast.kind = "mount" => LmIs(limitsAtMount) /\ lmPublished = <<>>

\* An update of one gate only replaced a local map that an edit had changed
\* at another gate: the edited entry is gone.
C16_Witness ==
    /\ lmLast.kind = "received"
    /\ \E g \in DOMAIN lmLast.prev \ DOMAIN lmLast.incoming : lmLast.prev[g] # 4
    /\ lmLast.incoming # <<>>
    /\ lmPublished # <<>>

\* An edit after a partial update publishes the whole (smaller) local map.
C16_WitnessEdit ==
    /\ lmLast.kind = "edit"
    /\ DOMAIN lmLast.prev # DOMAIN limitsAtMount
    /\ lmLast.gate \notin DOMAIN lmLast.prev

\* ---------------------------------------------------------------------------
\* C17: recomputation passes and the order of their writes
\* ---------------------------------------------------------------------------

\* The step just taken wrote the results of a pass that had started before a
\* pass that wrote before it.
MxStaleWrite == mxView \in {"route", "dead", "gate"} /\ mxCycle.stale

\* C17: the writes of recomputation passes never interleave: once a pass
\* has written its results, no pass that started before it writes its slots,
\* aircraft snapshot or matrix afterwards.  No matrix holds a later timer
\* fire back while a fetch is outstanding, and the responses are handled in
\* the order they arrive.
C17_PassesSerialized == ~ MxStaleWrite

\* The same, matrix by matrix: each of them lets an earlier pass write last.
C17_Serialized_App == ~ (MxStaleWrite /\ mxView = "route")
C17_Serialized_DR == ~ (MxStaleWrite /\ mxView = "dead")
C17_Serialized_TJSJ == ~ (MxStaleWrite /\ mxView = "gate")

\* In the gate matrix the earlier pass may have started under the previous
\* horizon: its slots then replace those of the horizon in force.
C17_HorizonInForce_TJSJ ==
    (MxStaleWrite /\ mxView = "gate") => Len(mxSlots) = mxWindowHours * 4

\* ---------------------------------------------------------------------------
\* C18: the slots of a pass triggered by a telemetry poll
\* ---------------------------------------------------------------------------

\* The last pass ran on the response of a telemetry poll.
MxPolled == MxRan /\ mxPass.by = "telemetry"

\* C18: a pass triggered by a telemetry poll uses slots generated during
\* that pass from its current time, never those of an earlier pass, so that
\* its first slot is not earlier than the time at which the pass runs.
C18_FreshSlots == MxPolled => (mxSlots # <<>> /\ mxSlots[1] >= mxPass.now)

\* The same, matrix by matrix.
C18_FreshSlots_App == (MxPolled /\ mxView = "route") => mxSlots[1] >= mxPass.now
C18_FreshSlots_DR == (MxPolled /\ mxView = "dead") => mxSlots[1] >= mxPass.now
C18_FreshSlots_TJSJ == (MxPolled /\ mxView = "gate") => mxSlots[1] >= mxPass.now

\* The route-based matrix generates slots at its mount and on a change of
\* horizon only (App.tsx 243-247): a polled pass finds the slots of an
\* earlier pass.
C18_Regenerated_App ==
    (MxPolled /\ mxView = "route")
        => mxSlots = generateSlots_App(roundToNext15_App(mxPass.now), mxWindowHours)

\* ---------------------------------------------------------------------------
\* C19: legs and ETAs along the path of the route drawing
\* ---------------------------------------------------------------------------

\* The route drawing has run for an aircraft that reports a groundspeed.
RtTimed == rtOut.kind = "vrf" /\ rtAc.groundspeed > 0

\* The element immediately before element k of a path: the aircraft position
\* for the first element.
RtBefore(elems, k) == IF k = 1 THEN RtHere ELSE elems[k - 1].coord

\* The ETA of the element before element k: now for the first element.
RtEtaBefore(elems, k) == IF k = 1 THEN validDate(0) ELSE elems[k - 1].eta

\* C19: along every path the route drawing produces, airway fixes spliced in
\* and destination appended, the leg of an element is measured from the
\* element immediately before it (the aircraft position for the first), and
\* its ETA is the ETA of that element (now for the first) plus the leg's
\* distance divided by the groundspeed.
C19_LegsFromPrecedingElement ==
    RtTimed =>
        \A k \in DOMAIN rtOut.labels :
            LET leg == haversineDistance(RtBefore(rtOut.labels, k), rtOut.labels[k].coord)
            IN  /\ rtOut.labels[k].dist = kmToNM(leg)
                /\ rtOut.labels[k].eta
                       = addLegTime_VRF(RtEtaBefore(rtOut.labels, k), leg, rtAc.groundspeed)

\* The same for the elements that route tokens and the destination append,
\* on paths without spliced airway fixes: there the legs are as claimed.
C19_LegsWithoutSplice_VRF ==
    (RtTimed /\ \A k \in DOMAIN rtOut.labels : rtOut.labels[k].src # "airway") =>
        \A k \in DOMAIN rtOut.labels :
            rtOut.labels[k].dist
                = kmToNM(haversineDistance(RtBefore(rtOut.labels, k), rtOut.labels[k].coord))

\* estimateFuturePositions measures each leg from the element before it.
C19_FutureLegs_VRF ==
    RtTimed =>
        /\ Len(rtOut.future) = Len(rtOut.route)
        /\ \A k \in DOMAIN rtOut.future :
              LET leg == haversineDistance(RtBefore(rtOut.future, k), rtOut.future[k].coord)
              IN  rtOut.future[k].eta
                      = validDate(RtEtaBefore(rtOut.future, k).ms
                                      + (leg * 36000) \div rtAc.groundspeed)

\* ETAs never decrease along the path, in the labels and in the future positions.
C19_EtasNeverDecrease_VRF ==
    RtTimed =>
        /\ \A k \in DOMAIN rtOut.labels :
              rtOut.labels[k].eta.valid
                  /\ RtEtaBefore(rtOut.labels, k).ms <= rtOut.labels[k].eta.ms
        /\ \A k \in DOMAIN rtOut.future :
              RtEtaBefore(rtOut.future, k).ms <= rtOut.future[k].eta.ms

\* ---------------------------------------------------------------------------
\* C20: the fix index of the route-based sector matrix
\* ---------------------------------------------------------------------------

\* The remaining route of pilot i of the last pass of the route-based matrix.
MxRouteFixes(i) == getRemainingRoute(mxPass.data[i], mxFixCoords)

\* Pilot i of the last pass is projected: retained, with a remaining route.
MxProjected(i) ==
    /\ MxRetained(mxPass.data[i])
    /\ mxPass.data[i].flight_plan.present
    /\ MxRouteFixes(i) # <<>>

\* C20: in the route-based sector matrix, for every retained aircraft with a
\* non-empty remaining route of fixCount fixes and every slot of the pass,
\* the index of the fix used as the projected position,
\* floor(minutesAhead / horizonMinutes * fixCount) clamped to the last index,
\* lies in 0..fixCount-1.
C20_FixIndexInRange ==
    (MxRan /\ mxView = "route") =>
        \A i \in DOMAIN mxPass.data :
            MxProjected(i) =>
                \A idx \in DOMAIN mxSlots :
                    fixIdx_App(mxSlots[idx], mxPass.now, mxWindowHours, Len(MxRouteFixes(i)))
                        \in 0..(Len(MxRouteFixes(i)) - 1)

\* The index is in range for the slots that are not earlier than the pass.
C20_InRangeAhead_App ==
    (MxRan /\ mxView = "route") =>
        \A i \in DOMAIN mxPass.data :
            MxProjected(i) =>
                \A idx \in DOMAIN mxSlots :
                    mxSlots[idx] >= mxPass.now =>
                        fixIdx_App(mxSlots[idx], mxPass.now, mxWindowHours,
                                   Len(MxRouteFixes(i)))
                            \in 0..(Len(MxRouteFixes(i)) - 1)

\* For a slot earlier than the pass the index is negative and no fix is used.
C20_BehindIsNegative_App ==
    (MxRan /\ mxView = "route") =>
        \A i \in DOMAIN mxPass.data :
            MxProjected(i) =>
                \A idx \in DOMAIN mxSlots :
                    mxSlots[idx] < mxPass.now =>
                        /\ fixIdx_App(mxSlots[idx], mxPass.now, mxWindowHours,
                                      Len(MxRouteFixes(i))) < 0
                        /\ futurePoint_App(MxRouteFixes(i), mxSlots[idx], mxPass.now,
                                           mxWindowHours) = undefined

\* ---------------------------------------------------------------------------
\* C21: airway fixes between two kept tokens of the route drawing
\* ---------------------------------------------------------------------------

\* name is a waypoint of airway a; its position on it.
RtOnAirway(a, name) == \E k \in DOMAIN a.wps : a.wps[k].waypoint = name
RtPosition(a, name) ==
    CHOOSE k \in DOMAIN a.wps :
        a.wps[k].waypoint = name /\ \A m \in 1..(k - 1) : a.wps[m].waypoint # name

\* The airways of the table that hold both names at non-adjacent positions.
RtSharedApart(n1, n2) ==
    {j \in DOMAIN rtTable :
        /\ RtOnAirway(rtTable[j], n1) /\ RtOnAirway(rtTable[j], n2)
        /\ abs(RtPosition(rtTable[j], n2) - RtPosition(rtTable[j], n1)) > 1}

\* The fixes of airway a strictly between n1 and n2, from n1 towards n2.
RtBetween(a, n1, n2) ==
    LET i1 == RtPosition(a, n1)
        i2 == RtPosition(a, n2)
    IN  IF i1 < i2
        THEN [k \in 1..(i2 - i1 - 1) |-> <<a.wps[i1 + k].lat, a.wps[i1 + k].lon>>]
        ELSE [k \in 1..(i1 - i2 - 1) |-> <<a.wps[i1 - k].lat, a.wps[i1 - k].lon>>]

\* Elements p and q of the path are consecutive kept tokens.
RtConsecutiveKept(p, q) ==
    /\ p < q
    /\ rtOut.labels[p].src = "token" /\ rtOut.labels[q].src = "token"
    /\ \A m \in (p + 1)..(q - 1) : rtOut.labels[m].src # "token"

\* What the path holds between its elements p and q.
RtInserted(p, q) == [k \in 1..(q - p - 1) |-> rtOut.labels[p + k].coord]

\* The path holds, between its consecutive kept tokens p and q, the fixes of an
\* airway on which both lie apart, in the direction of travel, and nothing
\* when no airway holds both apart.
RtGapFilled(p, q) ==
    LET n1 == rtOut.labels[p].name
        n2 == rtOut.labels[q].name
    IN  IF RtSharedApart(n1, n2) = {} THEN RtInserted(p, q) = <<>>
        ELSE \E j \in RtSharedApart(n1, n2) :
                RtInserted(p, q) = RtBetween(rtTable[j], n1, n2)

\* C21: when two consecutive kept tokens lie on the same airway at
\* non-adjacent positions, exactly the fixes of that airway strictly between
\* them are in the path between the two, ascending when the first token
\* precedes the second on the airway and descending otherwise; nothing is
\* inserted when they are adjacent on the airway or share none.
C21_GapsFilled ==
    rtOut.kind = "vrf" =>
        \A p, q \in DOMAIN rtOut.labels : RtConsecutiveKept(p, q) => RtGapFilled(p, q)

\* It is so when every token of the route resolves: the splice compares a
\* kept token with the token that follows it in the route text (App.tsx
\* 665, 682-683), which is then the next kept token.
C21_GapsFilledAllResolved_VRF ==
    (rtOut.kind = "vrf" /\ \A i \in DOMAIN rtOut.log : RtResolved(i)) =>
        \A p, q \in DOMAIN rtOut.labels : RtConsecutiveKept(p, q) => RtGapFilled(p, q)

\* Reachable: a splice in ascending and one in descending airway order.
C21_AscendingSplice_VRF ==
    /\ rtOut.kind = "vrf"
    /\ \E p \in DOMAIN rtOut.labels :
          /\ rtOut.labels[p].name = tAAA /\ rtOut.labels[p].src = "token"
          /\ p + 2 \in DOMAIN rtOut.labels
          /\ rtOut.labels[p + 1].name = tBBB /\ rtOut.labels[p + 1].src = "airway"
          /\ rtOut.labels[p + 2].name = tCCC
C21_DescendingSplice_VRF ==
    /\ rtOut.kind = "vrf"
    /\ \E p \in DOMAIN rtOut.labels :
          /\ rtOut.labels[p].name = tCCC /\ rtOut.labels[p].src = "token"
          /\ p + 2 \in DOMAIN rtOut.labels
          /\ rtOut.labels[p + 1].name = tBBB /\ rtOut.labels[p + 1].src = "airway"
          /\ rtOut.labels[p + 2].name = tAAA

\* ---------------------------------------------------------------------------
\* C22: the units of the two ETA computations of the route drawing
\* ---------------------------------------------------------------------------

\* The duration in ms of a leg of dist (haversineDistance, km in units of
\* 10 m) flown at gs knots: nautical miles divided by knots, times 60 minutes.
RtLegMs(dist, gs) == (dist * 19438 + (dist * 452) \div 1000) \div gs

\* C22: every ETA computation divides nautical miles by knots, so that for
\* the same start, path and groundspeed the ETA of a path element in the
\* future positions equals its ETA in the fix labels.
C22_SameEtaInBothLists ==
    RtTimed =>
        /\ Len(rtOut.future) = Len(rtOut.labels)
        /\ \A k \in DOMAIN rtOut.future :
              /\ rtOut.future[k].coord = rtOut.labels[k].coord
              /\ rtOut.future[k].eta = rtOut.labels[k].eta

\* The labels convert the kilometres to nautical miles (App.tsx 676): on a
\* path of one element, where no anchor is involved, the ETA of the label is
\* the leg in nautical miles over knots.
C22_LabelsInNauticalMiles_VRF ==
    (RtTimed /\ Len(rtOut.labels) >= 1) =>
        rtOut.labels[1].eta
            = validDate(RtLegMs(haversineDistance(RtHere, rtOut.labels[1].coord),
                                rtAc.groundspeed))

\* estimateFuturePositions does not (App.tsx 561-562): the same leg takes the
\* kilometres as nautical miles.
C22_FutureInNauticalMiles_VRF ==
    (RtTimed /\ Len(rtOut.future) >= 1) =>
        rtOut.future[1].eta
            = validDate(RtLegMs(haversineDistance(RtHere, rtOut.future[1].coord),
                                rtAc.groundspeed))

\* The two lists hold the same elements; only the ETAs differ.
C22_SameElements_VRF ==
    RtTimed =>
        /\ Len(rtOut.future) = Len(rtOut.labels)
        /\ \A k \in DOMAIN rtOut.future : rtOut.future[k].coord = rtOut.labels[k].coord

\* ---------------------------------------------------------------------------
\* C23: the slots and the matrix that a render shows
\* ---------------------------------------------------------------------------

\* Every row of the matrix has one count per slot, in a render.
MxAligned(shown) == \A n \in shown.rows : n = shown.slots

\* C23: in every state the presentation observes, the slots and the matrix
\* come from the same pass: every row of the matrix has exactly as many
\* counts as there are slots.  That covers the render committed between a
\* state update and the aggregation effect it triggers (mid) and the render
\* after it.
C23_RowsMatchSlots ==
    MxRan => (MxAligned(mxPass.mid) /\ MxAligned(Rendered(mxSlots, mxCounts)))

\* The render after the aggregation has one count per slot in every matrix.
C23_SettledRowsMatchSlots == MxRan => MxAligned(Rendered(mxSlots, mxCounts))

\* The render before the aggregation, matrix by matrix.
C23_MidRowsMatchSlots_App == (MxRan /\ mxView = "route") => MxAligned(mxPass.mid)
C23_MidRowsMatchSlots_DR == (MxRan /\ mxView = "dead") => MxAligned(mxPass.mid)
C23_MidRowsMatchSlots_TJSJ == (MxRan /\ mxView = "gate") => MxAligned(mxPass.mid)

\* Only a change of horizon misaligns the sector matrices.
C23_MidAlignedSameHorizon ==
    (MxRan /\ mxView \in {"route", "dead"} /\ mxPass.by # "window") => MxAligned(mxPass.mid)

=============================================================================
